---- MODULE Spec2Model ----
(***************************************************************************)
(* Booking <-> Google Calendar synchronisation of the Toca Aqui back end:  *)
(* BookingSyncService (syncBookingToCalendar, removeBookingFromCalendar,   *)
(* syncAllUserBookings), CalendarUtilsService (intelligentSync and its     *)
(* queries), GoogleCalendarService (createEvent, updateEvent, deleteEvent) *)
(* and AuthService (hasGoogleCalendarConnected, getValidGoogleTokens).     *)
(*                                                                         *)
(* Every `await` of a handler is a suspension point, so a handler is a     *)
(* sequence of atomic steps of one request, driven by pc.  The booking     *)
(* owner, the credential subsystem and the clock act between the steps.    *)
(***************************************************************************)
EXTENDS Integers, Sequences, FiniteSets, TLC

\* ------------------------------------------------------------------ bounds
MaxTime == 1
MaxEvents == 2
MaxRest == 40

\* ------------------------------------------------------------- the universe
Users == {"u1", "u2"}
NoUser == "nobody"
Bookings == {"b1", "b2"}
Requests == {"r1", "r2"}

NoEvent == 0
NoTime == -1

ACEITO == "aceito"
EM_NEGOCIACAO == "em_negociacao"
PENDENTE == "pendente"
REJEITADO == "rejeitado"
CANCELADO == "cancelado"
REALIZADO == "realizado"
BookingStatus == {PENDENTE, EM_NEGOCIACAO, ACEITO, REJEITADO, CANCELADO, REALIZADO}

\* booking.banda.usuario.id and booking.estabelecimento.usuario.id
banda(b) == "u1"
estabelecimento(b) == IF b = "b1" THEN "u2" ELSE NoUser

\* booking.data_show
data_show(b) == IF b = "b1" THEN 0 ELSE MaxTime + 1

VARIABLES
    bookings,   \* the booking table: status and the sync fields of each booking
    cred,       \* per user, the stored Google token: "none" | "valid" |
                \* "expired" (a refresh token is stored) | "unrefreshable"
                \* (expired, no refresh token stored)
    calendars,  \* per user: the ids of the events in the user's primary calendar
    now,        \* the clock (new Date())
    pc,         \* per request: position in syncBookingToCalendar / remove...
    op,         \* per request: "none" | "sync" | "remove"
    bk,         \* per request: bookingId
    snap,       \* per request: the booking object loaded by findByPk
    targets,    \* per request: syncUsers
    results,    \* per request: syncResults / removeResults
    calls,      \* per request: the GoogleCalendarService calls issued so far
    ret,        \* per request: the SyncResponse returned
    bpc,        \* per request: position in intelligentSync / syncAllUserBookings
    buser,      \* per request: userId of the batch call
    queue,      \* per request: the bookings of the running loop still to process
    actions,    \* per request: the action log (intelligentSync) / details (syncAll)
    bret,       \* per request: the result of the batch call
    ownerChanged, \* per request: history, an owner changed a booking while the
                \* batch call of the request was running
    planned,    \* per request: history, the bookings that satisfied the update
                \* and the delete predicate when intelligentSync started
    eventTimes, \* per event id: start.dateTime and end.dateTime of the event
    cpc,        \* position in checkScheduleConflicts
    cuser,      \* userId of checkScheduleConflicts
    cwin,       \* checkStart and checkEnd
    cevents,    \* calendarResult.events
    cret,       \* the ConflictCheck returned
    rest,       \* user u1's further future bookings of status ACEITO or
                \* EM_NEGOCIACAO, by count: all, synced, errors
    spc,        \* position in getSyncStatistics
    suser,      \* userId of getSyncStatistics
    sacc,       \* allBookings, syncedBookings, errorBookings, lastSyncBooking
    sret,       \* the SyncStatistics returned
    hpc,        \* position in checkIntegrationHealth
    huser,      \* userId of checkIntegrationHealth
    hret,       \* the result of checkIntegrationHealth
    oauth,      \* the user whose tokens oauth2Client holds
    gpc,        \* per request: position in a GoogleCalendarService operation
    guser,      \* per request: userId of the operation
    gop,        \* per request: the operation
    gused,      \* per request: history, the user whose tokens the external
                \* call of the operation was made with
    tbooking,   \* the booking given to convertBookingToEvent: data_show in
                \* milliseconds, duracao_estimada in minutes
    tevent,     \* the start and end of the GoogleCalendarEvent it returned
    stamp,      \* per request: the new Date() evaluated for an UPDATE of
                \* updateBookingSyncData that has not reached the store yet
    upd         \* GoogleCalendarService.updateEvent on one event: the partial
                \* event given, the event read, the request body, the event
                \* the calendar holds

vars == <<bookings, cred, calendars, now, pc, op, bk, snap, targets,
          results, calls, ret, bpc, buser, queue, actions, bret, ownerChanged,
          planned, eventTimes, cpc, cuser, cwin, cevents, cret,
          rest, spc, suser, sacc, sret, hpc, huser, hret,
          oauth, gpc, guser, gop, gused, tbooking, tevent, stamp, upd>>

global == <<bookings, cred, calendars, now>>
frame == <<pc, op, bk, snap, targets, results, calls, ret>>
batch == <<bpc, buser, queue, actions, bret, ownerChanged, planned>>
check == <<eventTimes, cpc, cuser, cwin, cevents, cret>>
stats == <<rest, spc, suser, sacc, sret>>
health == <<hpc, huser, hret>>
client == <<oauth, gpc, guser, gop, gused>>
\* The variables of the event content.
translate == <<tbooking, tevent, upd>>

NoRet == [success |-> FALSE, message |-> "", eventId |-> NoEvent, detail |-> "", count |-> 0]
NoBatchRet == [success |-> FALSE, message |-> "", total |-> 0, synchronized |-> 0,
               failed |-> 0]
NoSnap == [status |-> "", eventId |-> NoEvent]
NoPlan == [update |-> {}, delete |-> {}]

\* new Date('') for an event without start.dateTime: an invalid date (NaN).
InvalidDate == -2
NoEventTimes == [start |-> InvalidDate, end |-> InvalidDate]
NoWindow == [start |-> 0, end |-> 0]
NoRest == [all |-> 0, synced |-> 0, errors |-> 0]
NoBooking == [data_show |-> 0, duracao_estimada |-> 0]

\* The fields of a GoogleCalendarEvent; "absent" is a field that is not set
\* (undefined), "" the empty string.
Fields == {"summary", "description", "location", "status", "start", "end",
           "attendees", "reminders"}
NoUpdate ==
    LET NoFields == [f \in Fields |-> "absent"]
    IN [pc |-> "idle", eventData |-> NoFields, existing |-> NoFields,
        requestBody |-> NoFields, remote |-> NoFields]
NoTranslation ==
    LET NoDateTime == [day |-> 0, hour |-> 0, minute |-> 0, second |-> 0, ms |-> 0]
    IN [start |-> NoDateTime, end |-> NoDateTime, status |-> "none"]
NoCounts == [all |-> 0, synced |-> 0, errors |-> 0, store |-> <<>>]

\* The SyncStatistics of the catch block of getSyncStatistics; path is history:
\* how the call ended.
ZeroStats ==
    [totalBookings |-> 0, syncedBookings |-> 0, unsyncedBookings |-> 0,
     syncErrors |-> 0, lastSyncAt |-> NoTime, syncPercentage |-> 0, path |-> "none"]

\* The result of checkIntegrationHealth while nothing is checked yet.  stats is
\* the SyncStatistics the call obtained; conflictsPath and evaluated are
\* history: how checkScheduleConflicts ended, and the checks evaluated.
NoHealth ==
    [healthy |-> FALSE, issues |-> <<>>, tokenValid |-> FALSE,
     calendarAccess |-> FALSE, recentSyncActivity |-> FALSE, conflictsCount |-> 0,
     stats |-> ZeroStats, conflictsPath |-> "none", evaluated |-> {}]
\* { hasConflicts: false, conflicts: [] }; raised tells whether the call ended
\* in an error instead of a value, and path is history: how the call ended.
EmptyReport ==
    [hasConflicts |-> FALSE, conflicts |-> <<>>, raised |-> FALSE, path |-> "none"]

TypeOK ==
    /\ bookings \in [Bookings -> [status : BookingStatus, eventId : 0..MaxEvents,
                                  synced : BOOLEAN, lastSyncAt : NoTime..MaxTime,
                                  modifiedAt : 0..MaxTime]]
    /\ cred \in [Users -> {"none", "valid", "expired", "unrefreshable"}]
    /\ calendars \in [Users -> SUBSET (1..MaxEvents)]
    /\ now \in 0..MaxTime
    /\ pc \in [Requests -> {"idle", "targets", "call", "save", "finish", "done"}]
    /\ op \in [Requests -> {"none", "sync", "remove"}]
    /\ bpc \in [Requests -> {"idle", "create", "update", "delete", "all", "done"}]
    /\ ownerChanged \in [Requests -> BOOLEAN]
    /\ cpc \in {"idle", "list", "query", "done"}
    /\ cuser \in Users
    /\ cret.hasConflicts \in BOOLEAN

\* No call is in progress.
InitCalls ==
    /\ pc = [r \in Requests |-> "idle"]
    /\ op = [r \in Requests |-> "none"]
    /\ bk = [r \in Requests |-> "b1"]
    /\ snap = [r \in Requests |-> NoSnap]
    /\ targets = [r \in Requests |-> <<>>]
    /\ results = [r \in Requests |-> <<>>]
    /\ calls = [r \in Requests |-> <<>>]
    /\ ret = [r \in Requests |-> NoRet]
    /\ bpc = [r \in Requests |-> "idle"]
    /\ buser = [r \in Requests |-> "u1"]
    /\ queue = [r \in Requests |-> <<>>]
    /\ actions = [r \in Requests |-> <<>>]
    /\ bret = [r \in Requests |-> NoBatchRet]
    /\ ownerChanged = [r \in Requests |-> FALSE]
    /\ planned = [r \in Requests |-> NoPlan]
    /\ cpc = "idle"
    /\ cuser = "u1"
    /\ cwin = NoWindow
    /\ cevents = <<>>
    /\ cret = EmptyReport
    /\ spc = "idle"
    /\ suser = "u1"
    /\ sacc = NoCounts
    /\ sret = ZeroStats
    /\ hpc = "idle"
    /\ huser = "u1"
    /\ hret = NoHealth
    /\ oauth = NoUser
    /\ gpc = [r \in Requests |-> "idle"]
    /\ guser = [r \in Requests |-> "u1"]
    /\ gop = [r \in Requests |-> "none"]
    /\ gused = [r \in Requests |-> NoUser]
    /\ tevent = NoTranslation
    /\ stamp = [r \in Requests |-> NoTime]

Init ==
    /\ bookings = [b \in Bookings |->
                     [status |-> PENDENTE, eventId |-> NoEvent, synced |-> FALSE,
                      lastSyncAt |-> NoTime, modifiedAt |-> 0]]
    /\ cred = [u \in Users |-> "none"]
    /\ calendars = [u \in Users |-> {}]
    /\ now = 0
    /\ eventTimes = [e \in 1..MaxEvents |-> NoEventTimes]
    /\ rest = NoRest
    /\ tbooking = NoBooking
    /\ upd = NoUpdate
    /\ InitCalls

\* --------------------------------------------------------- the environment
\* new Date() advances.
Tick ==
    /\ now < MaxTime
    /\ now' = now + 1
    /\ UNCHANGED <<bookings, cred, calendars>>
    /\ UNCHANGED frame
    /\ UNCHANGED batch
    /\ UNCHANGED check
    /\ UNCHANGED <<stats, health, client, translate, stamp>>

\* History: the batch calls that are running see an owner's change.
NoteOwnerChange ==
    /\ ownerChanged' = [r \in Requests |-> ownerChanged[r] \/ bpc[r] \notin {"idle", "done"}]
    /\ UNCHANGED <<bpc, buser, queue, actions, bret, planned>>

\* The booking owner changes the content of a booking: data_atualizacao advances.
OwnerEdit(b) ==
    /\ bookings[b].modifiedAt < now
    /\ bookings' = [bookings EXCEPT ![b].modifiedAt = now]
    /\ UNCHANGED <<cred, calendars, now>>
    /\ UNCHANGED frame
    /\ NoteOwnerChange
    /\ UNCHANGED check
    /\ UNCHANGED <<stats, health, client, translate, stamp>>

\* The booking owner moves a booking to another status.
OwnerSetStatus(b, s) ==
    /\ bookings[b].status # s
    /\ bookings' = [bookings EXCEPT ![b].status = s, ![b].modifiedAt = now]
    /\ UNCHANGED <<cred, calendars, now>>
    /\ UNCHANGED frame
    /\ NoteOwnerChange
    /\ UNCHANGED check
    /\ UNCHANGED <<stats, health, client, translate, stamp>>

\* AuthService.saveGoogleTokens after the OAuth code exchange.
saveGoogleTokens(u) ==
    /\ cred[u] # "valid"
    /\ cred' = [cred EXCEPT ![u] = "valid"]
    /\ UNCHANGED <<bookings, calendars, now>>
    /\ UNCHANGED frame
    /\ UNCHANGED batch
    /\ UNCHANGED check
    /\ UNCHANGED <<stats, health, client, translate, stamp>>

\* AuthService.disconnectGoogleCalendar.
disconnectGoogleCalendar(u) ==
    /\ cred[u] # "none"
    /\ cred' = [cred EXCEPT ![u] = "none"]
    /\ UNCHANGED <<bookings, calendars, now>>
    /\ UNCHANGED frame
    /\ UNCHANGED batch
    /\ UNCHANGED check
    /\ UNCHANGED <<stats, health, client, translate, stamp>>

\* The stored access token passes its expiry date; saveGoogleTokens stored a
\* refresh token with it, or null.
TokenExpires(u) ==
    /\ cred[u] = "valid"
    /\ \E c \in {"expired", "unrefreshable"} : cred' = [cred EXCEPT ![u] = c]
    /\ UNCHANGED <<bookings, calendars, now>>
    /\ UNCHANGED frame
    /\ UNCHANGED batch
    /\ UNCHANGED check
    /\ UNCHANGED <<stats, health, client, translate, stamp>>

\* ------------------------------------------------------------ AuthService
\* Variant: connected only with a token that is not expired or can be refreshed.
hasGoogleCalendarConnected_Usable(u) == cred[u] \in {"valid", "expired"}

\* hasGoogleCalendarConnected: !!(user?.google_token_acesso), the expiry is not read.
hasGoogleCalendarConnected(u) == cred[u] # "none"

\* getValidGoogleTokens: the outcomes, each with the credential state it leaves.
\* No stored token: null.  Expired: refreshGoogleToken, which returns null
\* without a refresh token and otherwise either saves a new token or, when the
\* provider refuses, returns null.  Otherwise the stored token.
getValidGoogleTokens(u) ==
    CASE cred[u] = "none" -> {[ok |-> FALSE, c |-> "none"]}
      [] cred[u] = "unrefreshable" -> {[ok |-> FALSE, c |-> "unrefreshable"]}
      [] cred[u] = "expired" ->
            {[ok |-> TRUE, c |-> "valid"], [ok |-> FALSE, c |-> "expired"]}
      [] OTHER -> {[ok |-> TRUE, c |-> "valid"]}

\* --------------------------------------------------- GoogleCalendarService
Response(success, eventId, message) ==
    [success |-> success, eventId |-> eventId, message |-> message]

Outcome(res, u, c, cal) ==
    [res |-> res, cred |-> [cred EXCEPT ![u] = c], calendars |-> cal]

\* The ids in use: in a calendar, stored on a booking or held by a request.  The
\* provider gives a new event an id that is in use nowhere.
UsedIds ==
    UNION {calendars[u] : u \in Users}
    \cup {bookings[b].eventId : b \in Bookings}
    \cup {snap[r].eventId : r \in Requests}
    \cup {ret[r].eventId : r \in Requests}
    \cup UNION {{results[r][i].eventId : i \in 1..Len(results[r])} : r \in Requests}

FreeIds == (1..MaxEvents) \ UsedIds

NewId == CHOOSE e \in FreeIds : \A f \in FreeIds : e <= f

\* setupUserAuth failed: the call returns without reaching the provider.
AuthFailures(u) ==
    { Outcome(Response(FALSE, NoEvent, "TokenInvalid"), u, a.c, calendars) :
        a \in {x \in getValidGoogleTokens(u) : ~x.ok} }

\* The provider call throws: caught and returned as a failure.
ProviderFailures(u) ==
    { Outcome(Response(FALSE, NoEvent, "ProviderError"), u, a.c, calendars) :
        a \in {x \in getValidGoogleTokens(u) : x.ok} }

\* createEvent(userId, eventData): events.insert in the user's primary calendar.
createEvent(u) ==
    AuthFailures(u) \cup ProviderFailures(u) \cup
    { Outcome(Response(TRUE, NewId, "Created"), u, a.c,
              [calendars EXCEPT ![u] = @ \cup {NewId}]) :
        a \in {x \in getValidGoogleTokens(u) : x.ok /\ FreeIds # {}} }

\* updateEvent(userId, eventId, eventData): events.get, then events.update; a
\* missing event makes events.get throw.
updateEvent(u, e) ==
    AuthFailures(u) \cup ProviderFailures(u) \cup
    { Outcome(Response(TRUE, e, "Updated"), u, a.c, calendars) :
        a \in {x \in getValidGoogleTokens(u) : x.ok /\ e \in calendars[u]} }

\* deleteEvent(userId, eventId): events.delete; the response carries no eventId.
deleteEvent(u, e) ==
    AuthFailures(u) \cup ProviderFailures(u) \cup
    { Outcome(Response(TRUE, NoEvent, "Removed"), u, a.c,
              [calendars EXCEPT ![u] = @ \ {e}]) :
        a \in {x \in getValidGoogleTokens(u) : x.ok /\ e \in calendars[u]} }

\* ------------------------------------------------------ BookingSyncService
\* Variant: a pending booking is syncable too.
canSyncBooking_Pending(booking) == booking.status \in {ACEITO, EM_NEGOCIACAO, PENDENTE}

\* canSyncBooking: the status alone decides.
canSyncBooking(booking) == booking.status \in {ACEITO, EM_NEGOCIACAO}

\* getUsersToSync: the band's user, then the establishment's user, each only
\* when it exists and hasGoogleCalendarConnected.
getUsersToSync(b) ==
    SelectSeq(<<banda(b), estabelecimento(b)>>,
              LAMBDA u : u \in Users /\ hasGoogleCalendarConnected(u))

\* Variant: the UPDATE leaves google_calendar_event_id out.
updateBookingSyncData_KeepsId(r, googleEventId, synced) ==
    [bookings EXCEPT ![bk[r]].synced = synced,
                     ![bk[r]].lastSyncAt = IF stamp[r] # NoTime THEN stamp[r] ELSE now]

\* Variant: a null id is not written, the stored id stays.
updateBookingSyncData_KeepsIdOnNull(r, googleEventId, synced) ==
    [bookings EXCEPT ![bk[r]].eventId = IF googleEventId = NoEvent THEN @ ELSE googleEventId,
                     ![bk[r]].synced = synced,
                     ![bk[r]].lastSyncAt = IF stamp[r] # NoTime THEN stamp[r] ELSE now]

\* Variant: the UPDATE leaves last_sync_at out.
updateBookingSyncData_KeepsTime(r, googleEventId, synced) ==
    [bookings EXCEPT ![bk[r]].eventId = googleEventId,
                     ![bk[r]].synced = synced]

\* updateBookingSyncData, for the booking of request r: one UPDATE writing the
\* three sync fields together.  last_sync_at is the new Date() evaluated when
\* the UPDATE was built: stamp[r] when the store applies it later, else now.
updateBookingSyncData(r, googleEventId, synced) ==
    [bookings EXCEPT ![bk[r]].eventId = googleEventId,
                     ![bk[r]].synced = synced,
                     ![bk[r]].lastSyncAt = IF stamp[r] # NoTime THEN stamp[r] ELSE now]

\* The three sync fields of a booking row.
SyncFields(b) == <<bookings[b].eventId, bookings[b].synced, bookings[b].lastSyncAt>>

Successful(rs) == SelectSeq(rs, LAMBDA x : x.success)
Failed(rs) == SelectSeq(rs, LAMBDA x : ~x.success)

Apply(o) ==
    /\ cred' = o.cred
    /\ calendars' = o.calendars

\* Variant: the loop over syncUsers ends after its first user.
AfterCall_Break(r) == "finish"

\* Where the loop over syncUsers goes after the result of one more user.
AfterCall(r) == IF Len(results[r]) + 1 < Len(targets[r]) THEN "call" ELSE "finish"

\* The booking object a handler holds after findByPk: of the fields modelled, the
\* handlers read its status and its google_calendar_event_id.
Loaded(b) == [status |-> bookings[b].status, eventId |-> bookings[b].eventId]

\* syncBookingToCalendar, lines 17-32: findByPk and the status guard.
LoadSync(r, b) ==
    /\ op' = [op EXCEPT ![r] = "sync"]
    /\ bk' = [bk EXCEPT ![r] = b]
    /\ snap' = [snap EXCEPT ![r] = Loaded(b)]
    /\ targets' = [targets EXCEPT ![r] = <<>>]
    /\ results' = [results EXCEPT ![r] = <<>>]
    /\ calls' = [calls EXCEPT ![r] = <<>>]
    /\ IF canSyncBooking(bookings[b])
       THEN /\ pc' = [pc EXCEPT ![r] = "targets"]
            /\ ret' = [ret EXCEPT ![r] = NoRet]
       ELSE /\ pc' = [pc EXCEPT ![r] = "done"]
            /\ ret' = [ret EXCEPT ![r] =
                         [NoRet EXCEPT !.message = "InvalidState",
                                       !.detail = bookings[b].status]]

\* syncBookingToCalendar, lines 34-44: getUsersToSync and the empty-list guard.
SyncTargets(r) ==
    /\ pc[r] = "targets" /\ op[r] = "sync"
    /\ LET t == getUsersToSync(bk[r]) IN
         IF t = <<>>
         THEN /\ pc' = [pc EXCEPT ![r] = "done"]
              /\ ret' = [ret EXCEPT ![r] = [NoRet EXCEPT !.message = "NoTargets"]]
              /\ UNCHANGED targets
         ELSE /\ pc' = [pc EXCEPT ![r] = "call"]
              /\ targets' = [targets EXCEPT ![r] = t]
              /\ UNCHANGED ret
    /\ UNCHANGED <<op, bk, snap, results, calls>>
    /\ UNCHANGED global
    /\ UNCHANGED batch
    /\ UNCHANGED check
    /\ UNCHANGED <<stats, health, client, translate, stamp>>

\* Variant: the loop always creates.
HasEventId_Never(r) == FALSE

\* syncBookingToCalendar, line 52: if (booking.google_calendar_event_id), read
\* from the booking object loaded at the start of the call.
HasEventId(r) == snap[r].eventId # NoEvent

\* syncBookingToCalendar, lines 49-66: the call for the next user of syncUsers.
SyncCall(r) ==
    /\ pc[r] = "call" /\ op[r] = "sync"
    /\ LET u == targets[r][Len(results[r]) + 1]
           e == snap[r].eventId
       IN IF HasEventId(r)
          THEN \E o \in updateEvent(u, e) :
                 /\ Apply(o)
                 /\ results' = [results EXCEPT ![r] = Append(@, o.res)]
                 /\ calls' = [calls EXCEPT ![r] =
                                Append(@, [kind |-> "update", user |-> u, eventId |-> e])]
                 /\ pc' = [pc EXCEPT ![r] = AfterCall(r)]
          ELSE \E o \in createEvent(u) :
                 /\ Apply(o)
                 /\ results' = [results EXCEPT ![r] = Append(@, o.res)]
                 /\ calls' = [calls EXCEPT ![r] =
                                Append(@, [kind |-> "create", user |-> u, eventId |-> NoEvent])]
                 /\ pc' = [pc EXCEPT ![r] =
                             IF o.res.success /\ o.res.eventId # NoEvent /\ ~HasEventId(r)
                             THEN "save" ELSE AfterCall(r)]
    /\ UNCHANGED <<bookings, now, op, bk, snap, targets, ret>>
    /\ UNCHANGED batch
    /\ UNCHANGED check
    /\ UNCHANGED <<stats, health, client, translate, stamp>>

\* syncBookingToCalendar, lines 59-62: the id of a successful create is saved at once.
SyncSave(r) ==
    /\ pc[r] = "save" /\ op[r] = "sync"
    /\ bookings' = updateBookingSyncData(r, results[r][Len(results[r])].eventId, TRUE)
    /\ pc' = [pc EXCEPT ![r] =
                IF Len(results[r]) < Len(targets[r]) THEN "call" ELSE "finish"]
    /\ UNCHANGED <<cred, calendars, now, op, bk, snap, targets, results, calls, ret>>
    /\ UNCHANGED batch
    /\ UNCHANGED check
    /\ UNCHANGED <<stats, health, client, translate>>
    /\ stamp' = [stamp EXCEPT ![r] = NoTime]

\* Variant: the id of the last successful result.
FinalEventId_Last(r) ==
    IF Successful(results[r])[Len(Successful(results[r]))].eventId # NoEvent
    THEN Successful(results[r])[Len(Successful(results[r]))].eventId
    ELSE snap[r].eventId

\* The id written by the final update: successfulSyncs[0].eventId || booking.google_calendar_event_id
FinalEventId(r) ==
    IF Successful(results[r])[1].eventId # NoEvent
    THEN Successful(results[r])[1].eventId
    ELSE snap[r].eventId

\* Variant: the message of the last failure.
FirstFailure_Last(r) == Failed(results[r])[Len(Failed(results[r]))].message

\* failedSyncs[0]?.message
FirstFailure(r) == Failed(results[r])[1].message

\* syncBookingToCalendar, lines 68-92: the verdict over syncResults.
SyncFinish(r) ==
    /\ pc[r] = "finish" /\ op[r] = "sync"
    /\ IF Len(Successful(results[r])) > 0
       THEN /\ bookings' = updateBookingSyncData(r, FinalEventId(r), TRUE)
            /\ ret' = [ret EXCEPT ![r] =
                         [success |-> TRUE, message |-> "Synced",
                          eventId |-> FinalEventId(r), detail |-> "",
                          count |-> Len(Successful(results[r]))]]
       ELSE /\ UNCHANGED bookings
            /\ ret' = [ret EXCEPT ![r] =
                         [NoRet EXCEPT !.message = "SyncFailed",
                                       !.detail = FirstFailure(r)]]
    /\ pc' = [pc EXCEPT ![r] = "done"]
    /\ UNCHANGED <<cred, calendars, now, op, bk, snap, targets, results, calls>>
    /\ UNCHANGED batch
    /\ UNCHANGED check
    /\ UNCHANGED <<stats, health, client, translate>>
    /\ stamp' = [stamp EXCEPT ![r] = NoTime]

\* Variant: no not-synced guard.
LoadRemove_Unguarded(r, b) ==
    /\ op' = [op EXCEPT ![r] = "remove"]
    /\ bk' = [bk EXCEPT ![r] = b]
    /\ snap' = [snap EXCEPT ![r] = Loaded(b)]
    /\ targets' = [targets EXCEPT ![r] = <<>>]
    /\ results' = [results EXCEPT ![r] = <<>>]
    /\ calls' = [calls EXCEPT ![r] = <<>>]
    /\ pc' = [pc EXCEPT ![r] = "targets"]
    /\ ret' = [ret EXCEPT ![r] = NoRet]

\* removeBookingFromCalendar, lines 108-128: findByPk and the not-synced guard.
LoadRemove(r, b) ==
    /\ op' = [op EXCEPT ![r] = "remove"]
    /\ bk' = [bk EXCEPT ![r] = b]
    /\ snap' = [snap EXCEPT ![r] = Loaded(b)]
    /\ targets' = [targets EXCEPT ![r] = <<>>]
    /\ results' = [results EXCEPT ![r] = <<>>]
    /\ calls' = [calls EXCEPT ![r] = <<>>]
    /\ IF bookings[b].eventId # NoEvent
       THEN /\ pc' = [pc EXCEPT ![r] = "targets"]
            /\ ret' = [ret EXCEPT ![r] = NoRet]
       ELSE /\ pc' = [pc EXCEPT ![r] = "done"]
            /\ ret' = [ret EXCEPT ![r] = [NoRet EXCEPT !.message = "NotSynced"]]

\* removeBookingFromCalendar, lines 130-133: getUsersToSync; an empty list
\* is no early return.
RemoveTargets(r) ==
    /\ pc[r] = "targets" /\ op[r] = "remove"
    /\ targets' = [targets EXCEPT ![r] = getUsersToSync(bk[r])]
    /\ pc' = [pc EXCEPT ![r] = IF getUsersToSync(bk[r]) = <<>> THEN "finish" ELSE "call"]
    /\ UNCHANGED <<op, bk, snap, results, calls, ret>>
    /\ UNCHANGED global
    /\ UNCHANGED batch
    /\ UNCHANGED check
    /\ UNCHANGED <<stats, health, client, translate, stamp>>

\* removeBookingFromCalendar, lines 136-139: deleteEvent for the next user.
RemoveCall(r) ==
    /\ pc[r] = "call" /\ op[r] = "remove"
    /\ LET u == targets[r][Len(results[r]) + 1]
           e == snap[r].eventId
       IN \E o \in deleteEvent(u, e) :
            /\ Apply(o)
            /\ results' = [results EXCEPT ![r] = Append(@, o.res)]
            /\ calls' = [calls EXCEPT ![r] =
                           Append(@, [kind |-> "delete", user |-> u, eventId |-> e])]
    /\ pc' = [pc EXCEPT ![r] = AfterCall(r)]
    /\ UNCHANGED <<bookings, now, op, bk, snap, targets, ret>>
    /\ UNCHANGED batch
    /\ UNCHANGED check
    /\ UNCHANGED <<stats, health, client, translate, stamp>>

\* removeBookingFromCalendar, lines 141-152: the sync fields are cleared, then
\* the verdict is computed from removeResults.
RemoveFinish(r) ==
    /\ pc[r] = "finish" /\ op[r] = "remove"
    /\ bookings' = updateBookingSyncData(r, NoEvent, FALSE)
    /\ ret' = [ret EXCEPT ![r] =
                 [success |-> Len(Successful(results[r])) > 0,
                  message |-> IF Len(Successful(results[r])) > 0
                              THEN "Removed" ELSE "RemoveFailed",
                  eventId |-> NoEvent, detail |-> "",
                  count |-> Len(Successful(results[r]))]]
    /\ pc' = [pc EXCEPT ![r] = "done"]
    /\ UNCHANGED <<cred, calendars, now, op, bk, snap, targets, results, calls>>
    /\ UNCHANGED batch
    /\ UNCHANGED check
    /\ UNCHANGED <<stats, health, client, translate>>
    /\ stamp' = [stamp EXCEPT ![r] = NoTime]

\* A request for syncBookingToCalendar(bookingId) arrives.
StartSync(r, b) ==
    /\ pc[r] = "idle" /\ bpc[r] = "idle"
    /\ LoadSync(r, b)
    /\ UNCHANGED global
    /\ UNCHANGED batch
    /\ UNCHANGED check
    /\ UNCHANGED <<stats, health, client, translate, stamp>>

\* A request for removeBookingFromCalendar(bookingId) arrives.
StartRemove(r, b) ==
    /\ pc[r] = "idle" /\ bpc[r] = "idle"
    /\ LoadRemove(r, b)
    /\ UNCHANGED global
    /\ UNCHANGED batch
    /\ UNCHANGED check
    /\ UNCHANGED <<stats, health, client, translate, stamp>>

\* Variant: the error goes on to the caller.
OnCallError_Rethrow == [pc |-> "thrown", ret |-> NoRet]

\* syncBookingToCalendar, lines 93-100, removeBookingFromCalendar, lines
\* 153-160: the catch returns a failure response.
OnCallError == [pc |-> "done", ret |-> [NoRet EXCEPT !.message = "Error"]]

\* A request for a booking id that findByPk does not find (lines 19-24,
\* 116-121), or whose findByPk throws.
StartFails(r, o, found) ==
    /\ pc[r] = "idle" /\ bpc[r] = "idle"
    /\ op' = [op EXCEPT ![r] = o]
    /\ snap' = [snap EXCEPT ![r] = NoSnap]
    /\ targets' = [targets EXCEPT ![r] = <<>>]
    /\ results' = [results EXCEPT ![r] = <<>>]
    /\ calls' = [calls EXCEPT ![r] = <<>>]
    /\ IF found = "null"
       THEN /\ pc' = [pc EXCEPT ![r] = "done"]
            /\ ret' = [ret EXCEPT ![r] = [NoRet EXCEPT !.message = "NotFound"]]
       ELSE /\ pc' = [pc EXCEPT ![r] = OnCallError.pc]
            /\ ret' = [ret EXCEPT ![r] = OnCallError.ret]
    /\ UNCHANGED bk
    /\ UNCHANGED global
    /\ UNCHANGED batch
    /\ UNCHANGED check
    /\ UNCHANGED <<stats, health, client, translate, stamp>>

\* The UPDATE of updateBookingSyncData throws (lines 60, 75 and 142): the
\* rest of the try block is skipped.
CallThrows(r) ==
    /\ \/ pc[r] = "save"
       \/ pc[r] = "finish" /\ op[r] = "remove"
       \/ pc[r] = "finish" /\ op[r] = "sync" /\ Len(Successful(results[r])) > 0
    /\ pc' = [pc EXCEPT ![r] = OnCallError.pc]
    /\ ret' = [ret EXCEPT ![r] = OnCallError.ret]
    /\ UNCHANGED <<op, bk, snap, targets, results, calls>>
    /\ UNCHANGED global
    /\ UNCHANGED batch
    /\ UNCHANGED check
    /\ UNCHANGED <<stats, health, client, translate, stamp>>

\* updateBookingSyncData, line 391: new Date() is evaluated when the UPDATE is
\* built; the store applies the UPDATE after the await.
EvalDate(r) ==
    /\ \/ pc[r] = "save"
       \/ pc[r] = "finish" /\ op[r] = "remove"
       \/ pc[r] = "finish" /\ op[r] = "sync" /\ Len(Successful(results[r])) > 0
    /\ stamp[r] = NoTime
    /\ stamp' = [stamp EXCEPT ![r] = now]
    /\ UNCHANGED global
    /\ UNCHANGED frame
    /\ UNCHANGED batch
    /\ UNCHANGED check
    /\ UNCHANGED <<stats, health, client, translate>>

\* The response of a single call is delivered.
Return(r) ==
    /\ pc[r] = "done" /\ bpc[r] = "idle"
    /\ pc' = [pc EXCEPT ![r] = "idle"]
    /\ op' = [op EXCEPT ![r] = "none"]
    /\ snap' = [snap EXCEPT ![r] = NoSnap]
    /\ targets' = [targets EXCEPT ![r] = <<>>]
    /\ results' = [results EXCEPT ![r] = <<>>]
    /\ calls' = [calls EXCEPT ![r] = <<>>]
    /\ ret' = [ret EXCEPT ![r] = NoRet]
    /\ UNCHANGED bk
    /\ UNCHANGED global
    /\ UNCHANGED batch
    /\ UNCHANGED check
    /\ UNCHANGED <<stats, health, client, translate, stamp>>

\* ---------------------------------------------------- CalendarUtilsService
SeqOf(S) == SelectSeq(<<"b1", "b2">>, LAMBDA b : b \in S)

Involves(b, u) == banda(b) = u \/ estabelecimento(b) = u

\* data_show: { [Op.gte]: new Date() }
Future(b) == data_show(b) >= now

\* Variant: the query without google_calendar_synced: false.
getUnsyncedBookings_AnyFlag(u) ==
    { b \in Bookings :
        /\ bookings[b].status \in {ACEITO, EM_NEGOCIACAO}
        /\ Future(b)
        /\ Involves(b, u) }

\* getUnsyncedBookings(userId)
getUnsyncedBookings(u) ==
    { b \in Bookings :
        /\ bookings[b].synced = FALSE
        /\ bookings[b].eventId = NoEvent
        /\ bookings[b].status \in {ACEITO, EM_NEGOCIACAO}
        /\ Future(b)
        /\ Involves(b, u) }

\* Variant: the query without data_atualizacao > last_sync_at.
getModifiedBookings_All(u) ==
    { b \in Bookings :
        /\ bookings[b].synced = TRUE
        /\ bookings[b].eventId # NoEvent
        /\ bookings[b].status \in {ACEITO, EM_NEGOCIACAO}
        /\ Future(b)
        /\ Involves(b, u) }

\* getModifiedBookings(userId)
getModifiedBookings(u) ==
    { b \in Bookings :
        /\ bookings[b].synced = TRUE
        /\ bookings[b].eventId # NoEvent
        /\ bookings[b].status \in {ACEITO, EM_NEGOCIACAO}
        /\ Future(b)
        /\ Involves(b, u)
        /\ bookings[b].lastSyncAt # NoTime
        /\ bookings[b].modifiedAt > bookings[b].lastSyncAt }

\* Variant: the query for the status Cancelled only.
getCancelledSyncedBookings_CancelledOnly(u) ==
    { b \in Bookings :
        /\ bookings[b].synced = TRUE
        /\ bookings[b].eventId # NoEvent
        /\ bookings[b].status \in {CANCELADO}
        /\ Involves(b, u) }

\* getCancelledSyncedBookings(userId)
getCancelledSyncedBookings(u) ==
    { b \in Bookings :
        /\ bookings[b].synced = TRUE
        /\ bookings[b].eventId # NoEvent
        /\ bookings[b].status \in {CANCELADO, REJEITADO}
        /\ Involves(b, u) }

\* Variant: only the bookings not yet synced.
getUserBookings_Unsynced(u) ==
    { b \in Bookings :
        /\ bookings[b].status \in {ACEITO, EM_NEGOCIACAO}
        /\ Future(b)
        /\ Involves(b, u)
        /\ ~bookings[b].synced }

\* BookingSyncService.getUserBookings(userId)
getUserBookings(u) ==
    { b \in Bookings :
        /\ bookings[b].status \in {ACEITO, EM_NEGOCIACAO}
        /\ Future(b)
        /\ Involves(b, u) }

\* intelligentSync, lines 279-283: the call starts with the query of phase 1.
StartIntelligentSync(r, u) ==
    /\ pc[r] = "idle" /\ bpc[r] = "idle"
    /\ bpc' = [bpc EXCEPT ![r] = "create"]
    /\ buser' = [buser EXCEPT ![r] = u]
    /\ queue' = [queue EXCEPT ![r] = SeqOf(getUnsyncedBookings(u))]
    /\ actions' = [actions EXCEPT ![r] = <<>>]
    /\ bret' = [bret EXCEPT ![r] = NoBatchRet]
    /\ ownerChanged' = [ownerChanged EXCEPT ![r] = FALSE]
    /\ planned' = [planned EXCEPT ![r] =
                     [update |-> getModifiedBookings(u),
                      delete |-> getCancelledSyncedBookings(u)]]
    /\ UNCHANGED global
    /\ UNCHANGED frame
    /\ UNCHANGED check
    /\ UNCHANGED <<stats, health, client, translate, stamp>>

\* intelligentSync, lines 283 and 326-332: the query of phase 1 throws.
StartIntelligentSyncThrows(r, u) ==
    /\ pc[r] = "idle" /\ bpc[r] = "idle"
    /\ bpc' = [bpc EXCEPT ![r] = "done"]
    /\ buser' = [buser EXCEPT ![r] = u]
    /\ queue' = [queue EXCEPT ![r] = <<>>]
    /\ actions' = [actions EXCEPT ![r] = <<>>]
    /\ bret' = [bret EXCEPT ![r] = [NoBatchRet EXCEPT !.message = "StoreError"]]
    /\ ownerChanged' = [ownerChanged EXCEPT ![r] = FALSE]
    /\ UNCHANGED planned
    /\ UNCHANGED global
    /\ UNCHANGED frame
    /\ UNCHANGED check
    /\ UNCHANGED <<stats, health, client, translate, stamp>>

\* syncAllUserBookings, lines 176-195: the connection guard and getUserBookings.
StartSyncAll(r, u) ==
    /\ pc[r] = "idle" /\ bpc[r] = "idle"
    /\ buser' = [buser EXCEPT ![r] = u]
    /\ actions' = [actions EXCEPT ![r] = <<>>]
    /\ IF hasGoogleCalendarConnected(u)
       THEN /\ bpc' = [bpc EXCEPT ![r] = "all"]
            /\ queue' = [queue EXCEPT ![r] = SeqOf(getUserBookings(u))]
            /\ bret' = [bret EXCEPT ![r] =
                          [NoBatchRet EXCEPT !.total = Cardinality(getUserBookings(u))]]
       ELSE /\ bpc' = [bpc EXCEPT ![r] = "done"]
            /\ queue' = [queue EXCEPT ![r] = <<>>]
            /\ bret' = [bret EXCEPT ![r] = [NoBatchRet EXCEPT !.message = "NotConnected"]]
    /\ ownerChanged' = [ownerChanged EXCEPT ![r] = FALSE]
    /\ UNCHANGED planned
    /\ UNCHANGED global
    /\ UNCHANGED frame
    /\ UNCHANGED check
    /\ UNCHANGED <<stats, health, client, translate, stamp>>

\* The loop body calls syncBookingToCalendar / removeBookingFromCalendar for
\* the next booking of the running phase.
BatchCall(r) ==
    /\ bpc[r] \in {"create", "update", "delete", "all"}
    /\ pc[r] = "idle"
    /\ queue[r] # <<>>
    /\ IF bpc[r] = "delete"
       THEN LoadRemove(r, Head(queue[r]))
       ELSE LoadSync(r, Head(queue[r]))
    /\ UNCHANGED global
    /\ UNCHANGED batch
    /\ UNCHANGED check
    /\ UNCHANGED <<stats, health, client, translate, stamp>>

\* Variant: the loop ends at the first failed call.
RestOfQueue_AbortOnFailure(r) == IF ret[r].success THEN Tail(queue[r]) ELSE <<>>

\* for (const booking of ...): the bookings left after this iteration.
RestOfQueue(r) == Tail(queue[r])

\* The loop body records the result of the call (actions.push / details.push).
BatchCollect(r) ==
    /\ bpc[r] \in {"create", "update", "delete", "all"}
    /\ pc[r] = "done"
    /\ actions' = [actions EXCEPT ![r] =
                     Append(@, [type |-> bpc[r], bookingId |-> bk[r],
                                success |-> ret[r].success])]
    /\ bret' = [bret EXCEPT ![r] =
                  IF bpc[r] # "all" THEN @
                  ELSE IF ret[r].success
                       THEN [@ EXCEPT !.synchronized = @ + 1]
                       ELSE [@ EXCEPT !.failed = @ + 1]]
    /\ queue' = [queue EXCEPT ![r] = RestOfQueue(r)]
    /\ pc' = [pc EXCEPT ![r] = "idle"]
    /\ op' = [op EXCEPT ![r] = "none"]
    /\ snap' = [snap EXCEPT ![r] = NoSnap]
    /\ targets' = [targets EXCEPT ![r] = <<>>]
    /\ results' = [results EXCEPT ![r] = <<>>]
    /\ calls' = [calls EXCEPT ![r] = <<>>]
    /\ ret' = [ret EXCEPT ![r] = NoRet]
    /\ UNCHANGED <<bk, bpc, buser, ownerChanged, planned>>
    /\ UNCHANGED global
    /\ UNCHANGED check
    /\ UNCHANGED <<stats, health, client, translate, stamp>>

\* intelligentSync, lines 295 and 307: a finished loop is followed by the
\* query of the next phase; lines 318-325: the result after the last phase.
\* syncAllUserBookings, lines 214-218: the result after the loop.
BatchAdvance(r) ==
    /\ bpc[r] \in {"create", "update", "delete", "all"}
    /\ pc[r] = "idle"
    /\ queue[r] = <<>>
    /\ CASE bpc[r] = "create" ->
              /\ bpc' = [bpc EXCEPT ![r] = "update"]
              /\ queue' = [queue EXCEPT ![r] = SeqOf(getModifiedBookings(buser[r]))]
              /\ UNCHANGED bret
         [] bpc[r] = "update" ->
              /\ bpc' = [bpc EXCEPT ![r] = "delete"]
              /\ queue' = [queue EXCEPT ![r] = SeqOf(getCancelledSyncedBookings(buser[r]))]
              /\ UNCHANGED bret
         [] OTHER ->
              /\ bpc' = [bpc EXCEPT ![r] = "done"]
              /\ bret' = [bret EXCEPT ![r] = [@ EXCEPT !.success = TRUE, !.message = "Completed"]]
              /\ UNCHANGED queue
    /\ planned' = [planned EXCEPT ![r] =
                     IF bpc[r] = "create" THEN [@ EXCEPT !.update = {}] ELSE NoPlan]
    /\ UNCHANGED <<buser, actions, ownerChanged>>
    /\ UNCHANGED global
    /\ UNCHANGED frame
    /\ UNCHANGED check
    /\ UNCHANGED <<stats, health, client, translate, stamp>>

\* intelligentSync, lines 295, 307 and 326-332: the query of the next phase
\* throws; the catch returns success: false with an empty action list.
BatchQueryThrows(r) ==
    /\ bpc[r] \in {"create", "update"}
    /\ pc[r] = "idle"
    /\ queue[r] = <<>>
    /\ bpc' = [bpc EXCEPT ![r] = "done"]
    /\ actions' = [actions EXCEPT ![r] = <<>>]
    /\ bret' = [bret EXCEPT ![r] = [NoBatchRet EXCEPT !.message = "StoreError"]]
    /\ planned' = [planned EXCEPT ![r] = NoPlan]
    /\ UNCHANGED <<buser, queue, ownerChanged>>
    /\ UNCHANGED global
    /\ UNCHANGED frame
    /\ UNCHANGED check
    /\ UNCHANGED <<stats, health, client, translate, stamp>>

\* The response of a batch call is delivered.
BatchReturn(r) ==
    /\ bpc[r] = "done"
    /\ bpc' = [bpc EXCEPT ![r] = "idle"]
    /\ actions' = [actions EXCEPT ![r] = <<>>]
    /\ bret' = [bret EXCEPT ![r] = NoBatchRet]
    /\ ownerChanged' = [ownerChanged EXCEPT ![r] = FALSE]
    /\ planned' = [planned EXCEPT ![r] = NoPlan]
    /\ UNCHANGED <<buser, queue>>
    /\ UNCHANGED global
    /\ UNCHANGED frame
    /\ UNCHANGED check
    /\ UNCHANGED <<stats, health, client, translate, stamp>>

\* ----------------------------------------- checkScheduleConflicts
\* The instants of event starts and ends.
MaxInstant == MaxTime + 2

\* booking.duracao_estimada, in the unit of data_show.
duracao_estimada(b) == 2

\* start.dateTime and end.dateTime of a timed event, or none for an all-day event.
EventTimes ==
    { w \in [start : 0..MaxInstant, end : 0..MaxInstant] : w.start < w.end }
    \cup {NoEventTimes}

\* a < b on Date objects: false when one of them is invalid.
DateLt(a, b) == a # InvalidDate /\ b # InvalidDate /\ a < b

\* a.getTime() === b.getTime(): false when one of them is invalid.
DateEq(a, b) == a # InvalidDate /\ b # InvalidDate /\ a = b

\* Variant: intervals that touch at an endpoint overlap.
checkTimeOverlap_Closed(start1, end1, start2, end2) ==
    /\ start1 # InvalidDate /\ end1 # InvalidDate
    /\ start2 # InvalidDate /\ end2 # InvalidDate
    /\ start1 <= end2 /\ start2 <= end1

\* checkTimeOverlap: start1 < end2 && start2 < end1
checkTimeOverlap(start1, end1, start2, end2) ==
    DateLt(start1, end2) /\ DateLt(start2, end1)

\* Variant: same_time as soon as the starts are equal.
conflictType_StartOnly(bookingStart, bookingEnd, eventStart, eventEnd) ==
    IF DateEq(bookingStart, eventStart) THEN "same_time" ELSE "overlap"

\* checkScheduleConflicts, lines 243-244.
conflictType(bookingStart, bookingEnd, eventStart, eventEnd) ==
    IF DateEq(bookingStart, eventStart) /\ DateEq(bookingEnd, eventEnd)
    THEN "same_time" ELSE "overlap"

\* Variant: no event is skipped.
IsOwnEvent_Never(b, e) == FALSE

\* checkScheduleConflicts, line 231: event.id === booking.google_calendar_event_id
IsOwnEvent(b, e) == e = bookings[b].eventId

\* event.summary || 'Evento sem título'
summary(e) == "Evento"

bookingStart(b) == data_show(b)
bookingEnd(b) == data_show(b) + duracao_estimada(b)

\* getUserBookingsInPeriod(userId, startDate, endDate)
getUserBookingsInPeriod(u, startDate, endDate) ==
    { b \in Bookings :
        /\ startDate <= data_show(b) /\ data_show(b) <= endDate
        /\ bookings[b].status \in {ACEITO, EM_NEGOCIACAO}
        /\ Involves(b, u) }

\* The events of a calendar the provider returns for timeMin and timeMax.
InWindow(e, w) ==
    \/ eventTimes[e] = NoEventTimes
    \/ eventTimes[e].end > w.start /\ eventTimes[e].start < w.end

\* orderBy: 'startTime'
SortByStart(S) ==
    CHOOSE s \in [1..Cardinality(S) -> S] :
        /\ \A e \in S : \E i \in 1..Cardinality(S) : s[i] = e
        /\ \A i, j \in 1..Cardinality(S) :
              i < j => ~DateLt(eventTimes[s[j]].start, eventTimes[s[i]].start)

\* listEvents(userId, {startDate, endDate, maxResults}): the outcomes, each
\* with the credential state it leaves.
listEvents(u, w) ==
    { [success |-> FALSE, events |-> <<>>, c |-> a.c] : a \in getValidGoogleTokens(u) }
    \cup
    { [success |-> TRUE,
       events |-> SortByStart({e \in calendars[u] : InWindow(e, w)}),
       c |-> a.c] : a \in {x \in getValidGoogleTokens(u) : x.ok} }

\* The nested loops of lines 225-254 visit the pairs booking by booking.
PairsInOrder(bs, es) ==
    [i \in 1..(Len(bs) * Len(es)) |->
       [booking |-> bs[((i - 1) \div Len(es)) + 1],
        event |-> es[((i - 1) % Len(es)) + 1]]]

\* Lines 231-242: the pair yields a record.
IsConflict(p) ==
    /\ ~IsOwnEvent(p.booking, p.event)
    /\ checkTimeOverlap(bookingStart(p.booking), bookingEnd(p.booking),
                        eventTimes[p.event].start, eventTimes[p.event].end)

\* Lines 246-251: conflicts.push; the field event is history, the id of the
\* event the record was made for.
ConflictRecord(p) ==
    [bookingId |-> p.booking,
     conflictWith |-> summary(p.event),
     conflictDate |-> bookingStart(p.booking),
     conflictType |-> conflictType(bookingStart(p.booking), bookingEnd(p.booking),
                                   eventTimes[p.event].start, eventTimes[p.event].end),
     event |-> p.event]

Conflicts(bs, es) ==
    LET hits == SelectSeq(PairsInOrder(bs, es), IsConflict)
    IN [i \in 1..Len(hits) |-> ConflictRecord(hits[i])]

\* Variant: the error goes on to the caller.
OnCheckError_Rethrow == [EmptyReport EXCEPT !.raised = TRUE, !.path = "caught"]

\* checkScheduleConflicts, lines 260-263: the catch.
OnCheckError == [EmptyReport EXCEPT !.path = "caught"]

\* checkScheduleConflicts, lines 203-206: the window of the check.
CheckStart(u, w) ==
    /\ cpc = "idle"
    /\ cpc' = "list"
    /\ cuser' = u
    /\ cwin' = w
    /\ cevents' = <<>>
    /\ cret' = EmptyReport
    /\ UNCHANGED eventTimes
    /\ UNCHANGED global
    /\ UNCHANGED frame
    /\ UNCHANGED batch
    /\ UNCHANGED <<stats, health, client, translate, stamp>>

\* checkScheduleConflicts, lines 208-217: listEvents and the early return.
CheckList ==
    /\ cpc = "list"
    /\ \E o \in listEvents(cuser, cwin) :
         /\ cred' = [cred EXCEPT ![cuser] = o.c]
         /\ IF o.success
            THEN /\ cpc' = "query"
                 /\ cevents' = o.events
                 /\ UNCHANGED cret
            ELSE /\ cpc' = "done"
                 /\ cret' = [EmptyReport EXCEPT !.path = "notListed"]
                 /\ UNCHANGED cevents
    /\ UNCHANGED <<eventTimes, cuser, cwin>>
    /\ UNCHANGED <<bookings, calendars, now>>
    /\ UNCHANGED frame
    /\ UNCHANGED batch
    /\ UNCHANGED <<stats, health, client, translate, stamp>>

\* checkScheduleConflicts, lines 219-259: getUserBookingsInPeriod, which may
\* throw, the nested loops and the result.
CheckQuery ==
    /\ cpc = "query"
    /\ \/ cret' = OnCheckError
       \/ LET found == Conflicts(SeqOf(getUserBookingsInPeriod(cuser, cwin.start, cwin.end)),
                                 cevents)
          IN cret' = [hasConflicts |-> Len(found) > 0, conflicts |-> found,
                      raised |-> FALSE, path |-> "checked"]
    /\ cpc' = "done"
    /\ UNCHANGED <<eventTimes, cuser, cwin, cevents>>
    /\ UNCHANGED global
    /\ UNCHANGED frame
    /\ UNCHANGED batch
    /\ UNCHANGED <<stats, health, client, translate, stamp>>

\* The ConflictCheck is delivered.
CheckReturn ==
    /\ cpc = "done"
    /\ cpc' = "idle"
    /\ cwin' = NoWindow
    /\ cevents' = <<>>
    /\ cret' = EmptyReport
    /\ UNCHANGED <<eventTimes, cuser>>
    /\ UNCHANGED global
    /\ UNCHANGED frame
    /\ UNCHANGED batch
    /\ UNCHANGED <<stats, health, client, translate, stamp>>

\* ------------------------------------------------ getSyncStatistics
\* allBookings > 0 ? Math.round((syncedBookings / allBookings) * 100) : 0
\* The operands are Numbers, IEEE 754 binary64: the quotient is rounded to 53
\* significant bits (to nearest, ties to even), the product with 100 is rounded
\* again, and Math.round takes the nearest integer of that, a half going up.
\* A quotient is held as 1.f * 2^e with the 52 bits of f in four limbs of 13
\* bits; a product as (t + 0.g) * 2^e with t its leading 7 or 8 bits.
syncPercentage(syncedBookings, allBookings) ==
    LET B == 8192
        RECURSIVE Pow2(_)
        Pow2(n) == IF n = 0 THEN 1 ELSE 2 * Pow2(n - 1)
        RECURSIVE Up(_, _)
        Up(a, b) == IF a >= b THEN 0 ELSE 1 + Up(2 * a, b)
        RECURSIVE Down(_, _)
        Down(a, b) == IF a < 2 * b THEN 0 ELSE 1 + Down(a, 2 * b)
        \* limbs <<f1, f2, f3, low>> plus inc, the low limb of modulus m:
        \* <<carry, f1, f2, f3, low>>
        Plus(f, inc, m) ==
            LET l4 == f[4] + inc
                l3 == f[3] + (l4 \div m)
                l2 == f[2] + (l3 \div B)
                l1 == f[1] + (l2 \div B)
            IN <<l1 \div B, l1 % B, l2 % B, l3 % B, l4 % m>>
        Quotient(a, b) ==
            LET z == Up(a, b)
                w == Down(a, b)
                A == a * Pow2(z)
                D == b * Pow2(w)
                x1 == (A - D) * B
                x2 == (x1 % D) * B
                x3 == (x2 % D) * B
                x4 == (x3 % D) * B
                r == x4 % D
                f == <<x1 \div D, x2 \div D, x3 \div D, x4 \div D>>
                up == 2 * r > D \/ (2 * r = D /\ f[4] % 2 = 1)
                g == Plus(f, IF up THEN 1 ELSE 0, B)
            IN IF g[1] = 1
               THEN [f |-> <<0, 0, 0, 0>>, e |-> w - z + 1]
               ELSE [f |-> <<g[2], g[3], g[4], g[5]>>, e |-> w - z]
        Times100(q) ==
            LET p4 == q.f[4] * 100
                p3 == q.f[3] * 100 + (p4 \div B)
                p2 == q.f[2] * 100 + (p3 \div B)
                p1 == q.f[1] * 100 + (p2 \div B)
                t == 100 + (p1 \div B)
                k == IF t < 128 THEN 6 ELSE 7
                dropped == (p4 % B) % Pow2(k)
                kept == (p4 % B) \div Pow2(k)
                up == \/ dropped > Pow2(k - 1)
                      \/ (dropped = Pow2(k - 1) /\ kept % 2 = 1)
                g == Plus(<<p1 % B, p2 % B, p3 % B, kept>>,
                          IF up THEN 1 ELSE 0, Pow2(13 - k))
            IN [t |-> t + g[1], g1 |-> g[2], e |-> q.e]
        MathRound(y) ==
            IF y.e < 0
            THEN (y.t \div Pow2(-y.e)) + ((y.t \div Pow2(-y.e - 1)) % 2)
            ELSE y.t * Pow2(y.e) + (y.g1 \div Pow2(13 - y.e))
                 + ((y.g1 \div Pow2(12 - y.e)) % 2)
    IN IF allBookings > 0
       THEN (IF syncedBookings = 0 THEN 0
             ELSE MathRound(Times100(Quotient(syncedBookings, allBookings))))
       ELSE 0

\* Variant: never below zero.
unsyncedBookings_Floor(allBookings, syncedBookings) ==
    IF syncedBookings > allBookings THEN 0 ELSE allBookings - syncedBookings

\* allBookings - syncedBookings
unsyncedBookings(allBookings, syncedBookings) == allBookings - syncedBookings

RestOf(u) == IF u = "u1" THEN rest ELSE NoRest

\* status: [ACEITO, EM_NEGOCIACAO], data_show: { [Op.gte]: new Date() }
ActiveFuture(u) ==
    { b \in Bookings :
        /\ Involves(b, u)
        /\ bookings[b].status \in {ACEITO, EM_NEGOCIACAO}
        /\ Future(b) }

\* getUserBookingsCount with the conditions of allBookings
CountAll(u) == Cardinality(ActiveFuture(u)) + RestOf(u).all

\* getUserBookingsCount with the conditions of syncedBookings
CountSynced(u) ==
    Cardinality({ b \in ActiveFuture(u) :
                    bookings[b].synced /\ bookings[b].eventId # NoEvent })
    + RestOf(u).synced

\* getUserBookingsCount with the conditions of errorBookings
CountErrors(u) ==
    Cardinality({ b \in ActiveFuture(u) :
                    ~bookings[b].synced /\ bookings[b].eventId # NoEvent })
    + RestOf(u).errors

\* getLastSyncedBooking(userId)?.last_sync_at; the further bookings that carry
\* an event id were synced at instant 0.
LastSyncAt(u) ==
    LET times == {NoTime}
                 \cup (IF RestOf(u).synced + RestOf(u).errors > 0 THEN {0} ELSE {})
                 \cup { bookings[b].lastSyncAt : b \in {x \in Bookings : Involves(x, u)} }
    IN CHOOSE x \in times : \A y \in times : y <= x

\* getSyncStatistics(userId) is called.
StatsStart(u) ==
    /\ spc = "idle"
    /\ spc' = "all"
    /\ suser' = u
    /\ sacc' = [NoCounts EXCEPT !.store = bookings]
    /\ sret' = ZeroStats
    /\ UNCHANGED rest
    /\ UNCHANGED <<global, frame, batch, check, health, client, translate, stamp>>

\* getSyncStatistics, lines 152-155: allBookings
StatsCountAll ==
    /\ spc = "all"
    /\ spc' = "synced"
    /\ sacc' = [sacc EXCEPT !.all = CountAll(suser)]
    /\ UNCHANGED <<rest, suser, sret>>
    /\ UNCHANGED <<global, frame, batch, check, health, client, translate, stamp>>

\* getSyncStatistics, lines 158-163: syncedBookings
StatsCountSynced ==
    /\ spc = "synced"
    /\ spc' = "errors"
    /\ sacc' = [sacc EXCEPT !.synced = CountSynced(suser)]
    /\ UNCHANGED <<rest, suser, sret>>
    /\ UNCHANGED <<global, frame, batch, check, health, client, translate, stamp>>

\* getSyncStatistics, lines 166-171: errorBookings
StatsCountErrors ==
    /\ spc = "errors"
    /\ spc' = "last"
    /\ sacc' = [sacc EXCEPT !.errors = CountErrors(suser)]
    /\ UNCHANGED <<rest, suser, sret>>
    /\ UNCHANGED <<global, frame, batch, check, health, client, translate, stamp>>

\* Variant: reading the statistics stamps the user's bookings.
StatsLast_Stamps ==
    /\ spc = "last"
    /\ spc' = "done"
    /\ sret' = [ZeroStats EXCEPT !.path = "counted"]
    /\ bookings' = [b \in Bookings |->
                      IF Involves(b, suser) THEN [bookings[b] EXCEPT !.lastSyncAt = now]
                      ELSE bookings[b]]
    /\ UNCHANGED <<rest, suser, sacc>>
    /\ UNCHANGED <<cred, calendars, now>>
    /\ UNCHANGED <<frame, batch, check, health, client, translate, stamp>>

\* getSyncStatistics, lines 174-186: getLastSyncedBooking and the result
StatsLast ==
    /\ spc = "last"
    /\ spc' = "done"
    /\ sret' = [totalBookings |-> sacc.all,
                syncedBookings |-> sacc.synced,
                unsyncedBookings |-> unsyncedBookings(sacc.all, sacc.synced),
                syncErrors |-> sacc.errors,
                lastSyncAt |-> LastSyncAt(suser),
                syncPercentage |-> syncPercentage(sacc.synced, sacc.all),
                path |-> "counted"]
    /\ UNCHANGED <<rest, suser, sacc>>
    /\ UNCHANGED <<global, frame, batch, check, health, client, translate, stamp>>

\* getSyncStatistics, lines 187-196: one of the four store queries throws.
StatsThrows ==
    /\ spc \in {"all", "synced", "errors", "last"}
    /\ spc' = "done"
    /\ sret' = [ZeroStats EXCEPT !.path = "caught"]
    /\ UNCHANGED <<rest, suser, sacc>>
    /\ UNCHANGED <<global, frame, batch, check, health, client, translate, stamp>>

\* The SyncStatistics is delivered.
StatsReturn ==
    /\ spc = "done"
    /\ spc' = "idle"
    /\ sacc' = NoCounts
    /\ sret' = ZeroStats
    /\ UNCHANGED <<rest, suser>>
    /\ UNCHANGED <<global, frame, batch, check, health, client, translate, stamp>>

\* --------------------------------------------- checkIntegrationHealth
\* 7 * 24 * 60 * 60 * 1000 ms, in the unit of the clock.
SevenDays == 1

\* addDays(new Date(), 30): beyond every instant of the model.
ThirtyDays == MaxInstant + 1

\* checkCalendarAccess(userId): the outcomes, each with the credential state
\* it leaves.  setupUserAuth fails without a usable token; calendars.get
\* throws or returns no data; or the calendar is reached.
checkCalendarAccess(u) ==
    { [hasAccess |-> FALSE, c |-> a.c] : a \in getValidGoogleTokens(u) }
    \cup
    { [hasAccess |-> TRUE, c |-> a.c] : a \in {x \in getValidGoogleTokens(u) : x.ok} }

\* stats.lastSyncAt && (new Date().getTime() - stats.lastSyncAt.getTime()) < 7 days
recentSyncActivity(st) ==
    st.lastSyncAt # NoTime /\ now - st.lastSyncAt < SevenDays

\* Variant: 80 per cent is low too.
LowCoverage_Inclusive(st) == st.syncPercentage <= 80 /\ st.totalBookings > 0

\* stats.syncPercentage < 80 && stats.totalBookings > 0
LowCoverage(st) == st.syncPercentage < 80 /\ st.totalBookings > 0

\* Variant: only the first failing check is reported.
AddIssue_FirstOnly(issues, failing, name) ==
    IF failing /\ issues = <<>> THEN Append(issues, name) ELSE issues

\* if (failing) { issues.push(...); recommendations.push(...) }
AddIssue(issues, failing, name) ==
    IF failing THEN Append(issues, name) ELSE issues

\* checkIntegrationHealth(userId) is called.
HealthStart(u) ==
    /\ hpc = "idle" /\ spc = "idle" /\ cpc = "idle"
    /\ hpc' = "token"
    /\ huser' = u
    /\ hret' = NoHealth
    /\ UNCHANGED <<global, frame, batch, check, stats, client, translate, stamp>>

\* checkIntegrationHealth, lines 354-359: the token.
HealthToken ==
    /\ hpc = "token"
    /\ \E a \in getValidGoogleTokens(huser) :
         /\ cred' = [cred EXCEPT ![huser] = a.c]
         /\ hret' = [hret EXCEPT !.tokenValid = a.ok,
                                 !.issues = AddIssue(@, ~a.ok, "token"),
                                 !.evaluated = @ \cup {"token"}]
    /\ hpc' = "access"
    /\ UNCHANGED huser
    /\ UNCHANGED <<bookings, calendars, now>>
    /\ UNCHANGED <<frame, batch, check, stats, client, translate, stamp>>

\* checkIntegrationHealth, lines 361-369: the calendar, and getSyncStatistics
\* is called.
HealthAccess ==
    /\ hpc = "access"
    /\ \E o \in checkCalendarAccess(huser) :
         /\ cred' = [cred EXCEPT ![huser] = o.c]
         /\ hret' = [hret EXCEPT !.calendarAccess = o.hasAccess,
                                 !.issues = AddIssue(@, ~o.hasAccess, "access"),
                                 !.evaluated = @ \cup {"access"}]
    /\ hpc' = "stats"
    /\ spc' = "all"
    /\ suser' = huser
    /\ sacc' = [NoCounts EXCEPT !.store = bookings]
    /\ sret' = ZeroStats
    /\ UNCHANGED <<huser, rest>>
    /\ UNCHANGED <<bookings, calendars, now>>
    /\ UNCHANGED <<frame, batch, check, client, translate, stamp>>

\* checkIntegrationHealth, lines 369-379: the statistics are back, the recent
\* activity, and checkScheduleConflicts is called with the default window.
HealthStats ==
    /\ hpc = "stats" /\ spc = "done"
    /\ hret' = [hret EXCEPT !.stats = sret,
                            !.recentSyncActivity = recentSyncActivity(sret),
                            !.issues = AddIssue(@, ~recentSyncActivity(sret), "recency"),
                            !.evaluated = @ \cup {"recency"}]
    /\ hpc' = "conflicts"
    /\ spc' = "idle"
    /\ sacc' = NoCounts
    /\ sret' = ZeroStats
    /\ cpc' = "list"
    /\ cuser' = huser
    /\ cwin' = [start |-> now, end |-> now + ThirtyDays]
    /\ cevents' = <<>>
    /\ cret' = EmptyReport
    /\ UNCHANGED <<huser, rest, suser, eventTimes>>
    /\ UNCHANGED <<global, frame, batch, client, translate, stamp>>

\* checkIntegrationHealth, lines 379-403: the conflicts are back, the
\* coverage, and the result.
HealthConflicts ==
    /\ hpc = "conflicts" /\ cpc = "done"
    /\ LET withConflicts == AddIssue(hret.issues, cret.hasConflicts, "conflicts")
           all == AddIssue(withConflicts, LowCoverage(hret.stats), "coverage")
       IN hret' = [hret EXCEPT !.conflictsCount = Len(cret.conflicts),
                               !.conflictsPath = cret.path,
                               !.issues = all,
                               !.healthy = (Len(all) = 0),
                               !.evaluated = @ \cup {"conflicts", "coverage"}]
    /\ hpc' = "done"
    /\ cpc' = "idle"
    /\ cwin' = NoWindow
    /\ cevents' = <<>>
    /\ cret' = EmptyReport
    /\ UNCHANGED <<huser, cuser, eventTimes>>
    /\ UNCHANGED <<global, frame, batch, stats, client, translate, stamp>>

\* The result is delivered.
HealthReturn ==
    /\ hpc = "done"
    /\ hpc' = "idle"
    /\ hret' = NoHealth
    /\ UNCHANGED huser
    /\ UNCHANGED <<global, frame, batch, check, stats, client, translate, stamp>>

\* ------------------------------------------------ convertBookingToEvent
\* Date.prototype.toISOString: the fields of YYYY-MM-DDTHH:mm:ss.sssZ, the
\* calendar date held as the number of the day.
toISOString(t) ==
    [day |-> t \div 86400000,
     hour |-> (t % 86400000) \div 3600000,
     minute |-> (t % 3600000) \div 60000,
     second |-> (t % 60000) \div 1000,
     ms |-> t % 1000]

\* Variant: the milliseconds are cut off.
convertBookingToEvent_Seconds(booking) ==
    LET startDate == booking.data_show
        endDate == startDate + booking.duracao_estimada * 60 * 1000
    IN [start |-> [toISOString(startDate) EXCEPT !.ms = 0],
        end |-> [toISOString(endDate) EXCEPT !.ms = 0],
        status |-> "confirmed"]

\* convertBookingToEvent: startDate = new Date(booking.data_show), endDate =
\* addMinutes(startDate, booking.duracao_estimada), that is
\* new Date(date.getTime() + minutes * 60 * 1000); start.dateTime and
\* end.dateTime are their toISOString().
convertBookingToEvent(booking) ==
    LET startDate == booking.data_show
        endDate == startDate + booking.duracao_estimada * 60 * 1000
    IN [start |-> toISOString(startDate), end |-> toISOString(endDate),
        status |-> "confirmed"]

\* new Date(dateTime): the instant an ISO string denotes, in milliseconds.
ParseISO(d) ==
    d.day * 86400000 + d.hour * 3600000 + d.minute * 60000 + d.second * 1000 + d.ms

\* convertBookingToEvent(booking) is applied.
Translate ==
    /\ tevent = NoTranslation
    /\ tevent' = convertBookingToEvent(tbooking)
    /\ UNCHANGED <<tbooking, stamp, upd>>
    /\ UNCHANGED <<global, frame, batch, check, stats, health, client>>

\* The event is handed to the calendar client.
TranslateReturn ==
    /\ tevent # NoTranslation
    /\ tevent' = NoTranslation
    /\ UNCHANGED <<tbooking, stamp, upd>>
    /\ UNCHANGED <<global, frame, batch, check, stats, health, client>>

\* ------------------------------- GoogleCalendarService on oauth2Client
\* createEvent(userId, eventData) or listEvents(userId, options) is called.
ClientStart(r, u, o) ==
    /\ gpc[r] = "idle"
    /\ gpc' = [gpc EXCEPT ![r] = "auth"]
    /\ guser' = [guser EXCEPT ![r] = u]
    /\ gop' = [gop EXCEPT ![r] = o]
    /\ gused' = [gused EXCEPT ![r] = NoUser]
    /\ UNCHANGED oauth
    /\ UNCHANGED <<global, frame, batch, check, stats, health, translate, stamp>>

\* setupUserAuth(userId): getValidGoogleTokens, then setCredentials on the one
\* oauth2Client of the module; without tokens the operation returns a failure.
setupUserAuth(r) ==
    /\ gpc[r] = "auth"
    /\ \E a \in getValidGoogleTokens(guser[r]) :
         /\ cred' = [cred EXCEPT ![guser[r]] = a.c]
         /\ IF a.ok
            THEN /\ oauth' = guser[r]
                 /\ gpc' = [gpc EXCEPT ![r] = "call"]
            ELSE /\ UNCHANGED oauth
                 /\ gpc' = [gpc EXCEPT ![r] = "done"]
    /\ UNCHANGED <<guser, gop, gused>>
    /\ UNCHANGED <<bookings, calendars, now>>
    /\ UNCHANGED <<frame, batch, check, stats, health, translate, stamp>>

\* calendar.events.insert / calendar.events.list, after the await of
\* setupUserAuth: the request is made with the credentials oauth2Client holds
\* now.  An inserted event goes to the calendar of those credentials; the call
\* may throw, which the operation returns as a failure.
ClientCall(r) ==
    /\ gpc[r] = "call"
    /\ gused' = [gused EXCEPT ![r] = oauth]
    /\ gpc' = [gpc EXCEPT ![r] = "done"]
    /\ \/ /\ gop[r] = "create" /\ FreeIds # {}
          /\ calendars' = [calendars EXCEPT ![oauth] = @ \cup {NewId}]
       \/ UNCHANGED calendars
    /\ UNCHANGED <<oauth, guser, gop>>
    /\ UNCHANGED <<bookings, cred, now>>
    /\ UNCHANGED <<frame, batch, check, stats, health, translate, stamp>>

\* The response of the operation is delivered.
ClientReturn(r) ==
    /\ gpc[r] = "done"
    /\ gpc' = [gpc EXCEPT ![r] = "idle"]
    /\ gop' = [gop EXCEPT ![r] = "none"]
    /\ gused' = [gused EXCEPT ![r] = NoUser]
    /\ UNCHANGED <<oauth, guser>>
    /\ UNCHANGED <<global, frame, batch, check, stats, health, translate, stamp>>

\* ------------------------------------------- GoogleCalendarService.updateEvent
\* updateEvent, lines 764-790: summary, description, location and status are
\* eventData.f || existingEvent.data.f; start, end and attendees are set only
\* when given; no other field is set.
updateData(eventData, existing) ==
    [f \in Fields |->
       CASE f \in {"summary", "description", "location", "status"} ->
              IF eventData[f] \notin {"absent", ""} THEN eventData[f] ELSE existing[f]
         [] f \in {"start", "end", "attendees"} -> eventData[f]
         [] OTHER -> "absent"]

\* updateEvent(userId, eventId, eventData) is called for an event the
\* calendar holds; lines 750-753: events.get.
UpdateGet ==
    /\ upd.pc = "idle"
    /\ upd' = [upd EXCEPT !.pc = "update", !.existing = upd.remote]
    /\ UNCHANGED <<tbooking, tevent, stamp>>
    /\ UNCHANGED <<global, frame, batch, check, stats, health, client>>

\* updateEvent, lines 764-797: updateData is built and sent by events.update.
\* For a field the body does not carry the calendar keeps its value or resets
\* it.
UpdatePut ==
    /\ upd.pc = "update"
    /\ LET body == updateData(upd.eventData, upd.existing) IN
         \E reset \in SUBSET {f \in Fields : body[f] = "absent"} :
           upd' = [upd EXCEPT
                     !.pc = "done",
                     !.requestBody = body,
                     !.remote = [f \in Fields |->
                                   IF body[f] # "absent" THEN body[f]
                                   ELSE IF f \in reset THEN "absent"
                                   ELSE upd.remote[f]]]
    /\ UNCHANGED <<tbooking, tevent, stamp>>
    /\ UNCHANGED <<global, frame, batch, check, stats, health, client>>

\* updateEvent, lines 750-753 and 792-812: events.get or events.update
\* throws; the calendar keeps the event.
UpdateThrows ==
    /\ upd.pc \in {"idle", "update"}
    /\ upd' = [upd EXCEPT !.pc = "failed"]
    /\ UNCHANGED <<tbooking, tevent, stamp>>
    /\ UNCHANGED <<global, frame, batch, check, stats, health, client>>

\* ----------------------------------------------------------- specifications
\* No call of syncBookingToCalendar / removeBookingFromCalendar is in progress.
\* The owner and the credential subsystem act between such calls (also between
\* two iterations of a batch loop); the clock advances anywhere.
EnvPoint == \A r \in Requests : pc[r] = "idle"

\* The statuses the owner gives to a booking in the two-booking specification.
OwnerStatuses(b) == IF b = "b1" THEN {ACEITO, CANCELADO} ELSE {EM_NEGOCIACAO, REJEITADO}

CallSteps(r) ==
    \/ SyncTargets(r)
    \/ SyncCall(r)
    \/ SyncSave(r)
    \/ SyncFinish(r)
    \/ RemoveTargets(r)
    \/ RemoveCall(r)
    \/ RemoveFinish(r)

BatchSteps(r) ==
    \/ BatchCall(r)
    \/ BatchCollect(r)
    \/ BatchAdvance(r)
    \/ BatchQueryThrows(r)
    \/ BatchReturn(r)

\* Spec: single calls on booking b1, one request at a time.
Next ==
    \/ Tick
    \/ EnvPoint /\ \E s \in BookingStatus : OwnerSetStatus("b1", s)
    \/ EnvPoint /\ \E u \in Users : saveGoogleTokens(u)
    \/ EnvPoint /\ \E u \in Users : disconnectGoogleCalendar(u)
    \/ EnvPoint /\ \E u \in Users : TokenExpires(u)
    \/ StartSync("r1", "b1")
    \/ StartRemove("r1", "b1")
    \/ CallSteps("r1")
    \/ Return("r1")

Spec == Init /\ [][Next]_vars

\* SpecConc: two requests on booking b1, their steps interleaved at every
\* suspension point.  r2 is the request that arrives while r1 is in flight.
NextConc ==
    \/ Tick
    \/ EnvPoint /\ \E s \in OwnerStatuses("b1") : OwnerSetStatus("b1", s)
    \/ EnvPoint /\ \E u \in Users : saveGoogleTokens(u)
    \/ StartSync("r1", "b1")
    \/ StartRemove("r1", "b1")
    \/ pc["r1"] # "idle" /\ StartSync("r2", "b1")
    \/ pc["r1"] # "idle" /\ StartRemove("r2", "b1")
    \/ \E r \in Requests : CallSteps(r)
    \/ \E r \in Requests : Return(r)

SpecConc == Init /\ [][NextConc]_vars

\* SpecBatch: the batch calls over both bookings, one request at a time; of the
\* two users only u1 connects a calendar.
NextBatch ==
    \/ Tick
    \/ EnvPoint /\ \E b \in Bookings : OwnerEdit(b)
    \/ EnvPoint /\ \E b \in Bookings : \E s \in OwnerStatuses(b) : OwnerSetStatus(b, s)
    \/ EnvPoint /\ saveGoogleTokens("u1")
    \/ \E u \in Users : StartIntelligentSync("r1", u)
    \/ StartIntelligentSyncThrows("r1", "u1")
    \/ \E u \in Users : StartSyncAll("r1", u)
    \/ CallSteps("r1")
    \/ BatchSteps("r1")

SpecBatch == Init /\ [][NextBatch]_vars

\* SpecStore: intelligentSync of the connected user u1 over a booking table as
\* the writers of the booking subsystem may have left it: any rows in which a
\* synced booking has an external event id.
StoreId(b) == IF b = "b1" THEN 1 ELSE 2

StoreRows(b) ==
    { row \in [status : {ACEITO, CANCELADO, REJEITADO},
               eventId : {NoEvent, StoreId(b)},
               synced : BOOLEAN,
               lastSyncAt : {NoTime, 0},
               modifiedAt : {0}] :
        row.synced => row.eventId # NoEvent }

InitStore ==
    /\ bookings \in [Bookings -> UNION {StoreRows(b) : b \in Bookings}]
    /\ \A b \in Bookings : bookings[b] \in StoreRows(b)
    /\ cred = [u \in Users |-> IF u = "u1" THEN "valid" ELSE "none"]
    /\ calendars \in [Users -> SUBSET {bookings[b].eventId : b \in Bookings}]
    /\ calendars["u2"] = {}
    /\ NoEvent \notin calendars["u1"]
    /\ now = 0
    /\ eventTimes = [e \in 1..MaxEvents |-> NoEventTimes]
    /\ rest = NoRest
    /\ tbooking = NoBooking
    /\ upd = NoUpdate
    /\ InitCalls

NextStore ==
    \/ StartIntelligentSync("r1", "u1")
    \/ CallSteps("r1")
    \/ BatchSteps("r1")

SpecStore == InitStore /\ [][NextStore]_vars

\* SpecConflict: checkScheduleConflicts of user u1 over a booking table and a
\* calendar drawn at the start.
CheckWindows == [start : 0..MaxTime, end : {MaxTime, MaxInstant + 1}]

ConflictRows(b) ==
    { row \in [status : {ACEITO, CANCELADO},
               eventId : {NoEvent, StoreId(b)},
               synced : BOOLEAN,
               lastSyncAt : {NoTime, 0},
               modifiedAt : {0}] :
        /\ row.synced = (row.eventId # NoEvent)
        /\ (row.lastSyncAt # NoTime) = row.synced
        /\ b = "b2" => row.eventId = NoEvent }

InitConflict ==
    /\ bookings \in [Bookings -> UNION {ConflictRows(b) : b \in Bookings}]
    /\ \A b \in Bookings : bookings[b] \in ConflictRows(b)
    /\ cred \in [Users -> {"none", "valid", "expired", "unrefreshable"}]
    /\ cred["u2"] = "none"
    /\ calendars \in [Users -> SUBSET (1..MaxEvents)]
    /\ calendars["u2"] = {}
    /\ now = 0
    /\ eventTimes \in [1..MaxEvents -> EventTimes]
    /\ \A e \in 1..MaxEvents : e \notin calendars["u1"] => eventTimes[e] = NoEventTimes
    /\ rest = NoRest
    /\ tbooking = NoBooking
    /\ upd = NoUpdate
    /\ InitCalls

NextConflict ==
    \/ \E w \in CheckWindows : CheckStart("u1", w)
    \/ CheckList
    \/ CheckQuery
    \/ CheckReturn

SpecConflict == InitConflict /\ [][NextConflict]_vars

\* SpecStats: getSyncStatistics of user u1 over a booking table drawn at the
\* start, while the owner of b1 may change its status once during a call,
\* between the first count and the second.
StatsRows(b) ==
    { row \in [status : {ACEITO, EM_NEGOCIACAO, CANCELADO, REJEITADO},
               eventId : {NoEvent, StoreId(b)},
               synced : BOOLEAN,
               lastSyncAt : {NoTime, 0},
               modifiedAt : {0}] :
        /\ row.status \in OwnerStatuses(b)
        /\ row.synced => row.eventId # NoEvent
        /\ (row.lastSyncAt # NoTime) = (row.eventId # NoEvent)
        /\ b = "b2" => row.eventId = NoEvent }

Rests ==
    { x \in [all : 0..MaxRest, synced : 0..MaxRest, errors : {0}] : x.synced <= x.all }

InitStats ==
    /\ bookings \in [Bookings -> UNION {StatsRows(b) : b \in Bookings}]
    /\ \A b \in Bookings : bookings[b] \in StatsRows(b)
    /\ cred = [u \in Users |-> "none"]
    /\ calendars = [u \in Users |-> {}]
    /\ now \in 0..MaxTime
    /\ eventTimes = [e \in 1..MaxEvents |-> NoEventTimes]
    /\ rest \in Rests
    /\ tbooking = NoBooking
    /\ upd = NoUpdate
    /\ InitCalls

NextStats ==
    \/ StatsStart("u1")
    \/ StatsCountAll
    \/ StatsCountSynced
    \/ StatsCountErrors
    \/ StatsLast
    \/ StatsThrows
    \/ StatsReturn
    \/ \E st \in {ACEITO, CANCELADO} :
          /\ spc = "synced"
          /\ bookings = sacc.store
          /\ OwnerSetStatus("b1", st)

SpecStats == InitStats /\ [][NextStats]_vars

\* SpecHealth: checkIntegrationHealth of user u1 over a booking table, a
\* credential and a calendar drawn at the start.
HealthRows(b) ==
    { row \in StatsRows(b) : row.eventId # NoEvent => row.synced }

HealthRests == { x \in Rests : x.all \in {0, 5} /\ x.synced \in {0, 4} }

InitHealth ==
    /\ bookings \in [Bookings -> UNION {HealthRows(b) : b \in Bookings}]
    /\ \A b \in Bookings : bookings[b] \in HealthRows(b)
    /\ cred \in [Users -> {"none", "valid", "expired", "unrefreshable"}]
    /\ cred["u2"] = "none"
    /\ calendars \in [Users -> SUBSET {MaxEvents}]
    /\ calendars["u2"] = {}
    /\ now \in 0..MaxTime
    /\ eventTimes = [e \in 1..MaxEvents |->
                       IF e \in calendars["u1"]
                       THEN [start |-> 1, end |-> 3] ELSE NoEventTimes]
    /\ rest \in HealthRests
    /\ tbooking = NoBooking
    /\ upd = NoUpdate
    /\ InitCalls

NextHealth ==
    \/ HealthStart("u1")
    \/ HealthToken
    \/ HealthAccess
    \/ StatsCountAll
    \/ StatsCountSynced
    \/ StatsCountErrors
    \/ StatsLast
    \/ StatsThrows
    \/ HealthStats
    \/ CheckList
    \/ CheckQuery
    \/ HealthConflicts
    \/ HealthReturn

SpecHealth == InitHealth /\ [][NextHealth]_vars

\* SpecStamp: the two requests of SpecConc, the evaluation of new Date() and
\* the UPDATE carrying it as separate steps.
NextStamp ==
    \/ NextConc
    \/ \E r \in Requests : EvalDate(r)

SpecStamp == Init /\ [][NextStamp]_vars

\* SpecClient: operations of GoogleCalendarService for the two users, one
\* request each, interleaved at their awaits.
NextClient ==
    \/ \E u \in Users : saveGoogleTokens(u)
    \/ \E u \in Users : TokenExpires(u)
    \/ \E o \in {"create", "list"} : ClientStart("r1", "u1", o)
    \/ \E o \in {"create", "list"} : ClientStart("r2", "u2", o)
    \/ \E r \in Requests : setupUserAuth(r)
    \/ \E r \in Requests : ClientCall(r)
    \/ \E r \in Requests : ClientReturn(r)

SpecClient == Init /\ [][NextClient]_vars

\* SpecUpdate: updateEvent on an event with every field set, for each partial
\* event: a field is given, not given or, for the three texts, empty.
InitUpdate ==
    /\ bookings = [b \in Bookings |->
                     [status |-> PENDENTE, eventId |-> NoEvent, synced |-> FALSE,
                      lastSyncAt |-> NoTime, modifiedAt |-> 0]]
    /\ cred = [u \in Users |-> "none"]
    /\ calendars = [u \in Users |-> {}]
    /\ now = 0
    /\ eventTimes = [e \in 1..MaxEvents |-> NoEventTimes]
    /\ rest = NoRest
    /\ tbooking = NoBooking
    /\ InitCalls
    /\ \E given \in [Fields -> {"given", "absent", ""}] :
         /\ \A f \in Fields \ {"summary", "description", "location"} : given[f] # ""
         /\ upd = [NoUpdate EXCEPT !.eventData = given,
                                   !.remote = [f \in Fields |-> "remote"]]

NextUpdate ==
    \/ UpdateGet
    \/ UpdatePut
    \/ UpdateThrows

SpecUpdate == InitUpdate /\ [][NextUpdate]_vars

\* SpecFrame: intelligentSync of user u1 and, between its calls, the reports
\* of user u1: getSyncStatistics, checkScheduleConflicts, checkIntegrationHealth.
NextFrame ==
    \/ (hpc = "idle" /\ spc = "idle" /\ cpc = "idle")
          /\ \/ Tick
             \/ EnvPoint /\ \E st \in OwnerStatuses("b1") : OwnerSetStatus("b1", st)
             \/ EnvPoint /\ saveGoogleTokens("u1")
             \/ StartIntelligentSync("r1", "u1")
             \/ CallSteps("r1")
             \/ BatchSteps("r1")
    \/ (pc["r1"] = "idle" /\ bpc["r1"] = "idle" /\ hpc = "idle" /\ cpc = "idle")
          /\ (StatsStart("u1") \/ StatsReturn)
    \/ (pc["r1"] = "idle" /\ bpc["r1"] = "idle" /\ hpc = "idle" /\ spc = "idle")
          /\ (CheckStart("u1", [start |-> now, end |-> now + ThirtyDays]) \/ CheckReturn)
    \/ (pc["r1"] = "idle" /\ bpc["r1"] = "idle" /\ spc = "idle" /\ cpc = "idle")
          /\ HealthStart("u1")
    \/ HealthToken
    \/ HealthAccess
    \/ StatsCountAll
    \/ StatsCountSynced
    \/ StatsCountErrors
    \/ StatsLast
    \/ StatsThrows
    \/ HealthStats
    \/ CheckList
    \/ CheckQuery
    \/ HealthConflicts
    \/ HealthReturn

SpecFrame == Init /\ [][NextFrame]_vars

\* SpecErrors: the single calls of Spec and, between two of them,
\* getSyncStatistics of user u1.
NextErrors ==
    \/ spc = "idle" /\ Next
    \/ pc["r1"] = "idle" /\ StatsStart("u1")
    \/ StatsCountAll
    \/ StatsCountSynced
    \/ StatsCountErrors
    \/ StatsLast
    \/ StatsThrows
    \/ StatsReturn

SpecErrors == Init /\ [][NextErrors]_vars

\* SpecOwn: the single calls on booking b1 and, between two of them,
\* checkScheduleConflicts of either participant.  The calendars start empty,
\* so every event is one createEvent made for b1 and, by convertBookingToEvent,
\* has b1's start and end.
InitOwn ==
    /\ bookings = [b \in Bookings |->
                     [status |-> PENDENTE, eventId |-> NoEvent, synced |-> FALSE,
                      lastSyncAt |-> NoTime, modifiedAt |-> 0]]
    /\ cred = [u \in Users |-> "none"]
    /\ calendars = [u \in Users |-> {}]
    /\ now = 0
    /\ eventTimes = [e \in 1..MaxEvents |->
                       [start |-> bookingStart("b1"), end |-> bookingEnd("b1")]]
    /\ rest = NoRest
    /\ tbooking = NoBooking
    /\ upd = NoUpdate
    /\ InitCalls

NextOwn ==
    \/ (EnvPoint /\ cpc = "idle") /\ \E st \in OwnerStatuses("b1") : OwnerSetStatus("b1", st)
    \/ (EnvPoint /\ cpc = "idle") /\ \E u \in Users : saveGoogleTokens(u)
    \/ cpc = "idle" /\ StartSync("r1", "b1")
    \/ cpc = "idle" /\ StartRemove("r1", "b1")
    \/ CallSteps("r1")
    \/ Return("r1")
    \/ EnvPoint /\ \E u \in Users :
                      CheckStart(u, [start |-> now, end |-> now + ThirtyDays])
    \/ CheckList
    \/ CheckQuery
    \/ CheckReturn

SpecOwn == InitOwn /\ [][NextOwn]_vars

\* SpecItem: the single calls of Spec, with the booking ids the store does
\* not hold and the store errors.
NextItem ==
    \/ Next
    \/ \E o \in {"sync", "remove"} : \E found \in {"null", "throws"} :
          StartFails("r1", o, found)
    \/ CallThrows("r1")

SpecItem == Init /\ [][NextItem]_vars

\* SpecTranslate: convertBookingToEvent on a booking drawn at the start.
InitTranslate ==
    /\ bookings = [b \in Bookings |->
                     [status |-> PENDENTE, eventId |-> NoEvent, synced |-> FALSE,
                      lastSyncAt |-> NoTime, modifiedAt |-> 0]]
    /\ cred = [u \in Users |-> "none"]
    /\ calendars = [u \in Users |-> {}]
    /\ now = 0
    /\ eventTimes = [e \in 1..MaxEvents |-> NoEventTimes]
    /\ rest = NoRest
    /\ upd = NoUpdate
    /\ InitCalls
    /\ tbooking \in
         [data_show :
              { d * 86400000 + x :
                  d \in 0..1,
                  x \in {0, 1, 999, 1000, 59999, 3599999, 86340000, 86399999} },
          duracao_estimada : {1, 2, 59, 60, 61, 1439, 1440, 1441}]

NextTranslate ==
    \/ Translate
    \/ TranslateReturn

SpecTranslate == InitTranslate /\ [][NextTranslate]_vars

\* ------------------------------------------------------------------ claims
\* C1: in every state reached by any interleaving of reconcile and remove
\* calls, started from unset sync fields, a booking that is marked synced has
\* an external event id.
C1_SyncedHasEventId ==
    \A b \in Bookings : bookings[b].synced => bookings[b].eventId # NoEvent

\* A reconcile and a remove on the same booking are both in flight and the
\* booking is marked synced.
C1_Witness ==
    /\ bookings["b1"].synced
    /\ op["r1"] = "sync" /\ pc["r1"] \in {"call", "save", "finish"}
    /\ op["r2"] = "remove" /\ pc["r2"] \in {"call", "finish"}

\* C2: a remove on a booking with an external event id in which no deleteEvent
\* succeeds (every call fails, or there is no target) returns success = false
\* and leaves externalEventId, synced and lastSyncAt as they were.
C2_RemoveWithoutSuccessKeepsFields ==
    [][\A r \in Requests :
         (/\ op[r] = "remove" /\ pc[r] = "finish" /\ pc'[r] = "done"
          /\ snap[r].eventId # NoEvent
          /\ Successful(results[r]) = <<>>)
         => (/\ ret'[r].success = FALSE
             /\ SyncFields(bk[r])' = SyncFields(bk[r]))]_vars

C4_ReconcileIdempotent ==
    \A r \in Requests :
        (op[r] = "sync" /\ snap[r].eventId # NoEvent)
        => /\ \A i \in 1..Len(calls[r]) :
                /\ calls[r][i].kind = "update"
                /\ calls[r][i].eventId = snap[r].eventId
           /\ bookings[bk[r]].eventId = snap[r].eventId

\* A second reconcile has finished successfully after calling both targets.
C4_Witness ==
    /\ op["r1"] = "sync" /\ pc["r1"] = "done"
    /\ snap["r1"].eventId # NoEvent
    /\ ret["r1"].success
    /\ Len(calls["r1"]) = 2

C6_AllTargetsFail ==
    /\ [](\A r \in Requests :
            (/\ op[r] = "sync" /\ pc[r] = "done"
             /\ results[r] # <<>> /\ Successful(results[r]) = <<>>)
            => (/\ ret[r].success = FALSE
                /\ ret[r].message = "SyncFailed"
                /\ ret[r].detail = results[r][1].message))
    /\ [][\A r \in Requests :
            (op[r] = "sync" /\ op'[r] = "sync" /\ Successful(results'[r]) = <<>>)
            => SyncFields(bk[r])' = SyncFields(bk[r])]_vars

\* Two targets failed, the first for its token and the second at the provider.
C6_Witness ==
    /\ op["r1"] = "sync" /\ pc["r1"] = "done"
    /\ Len(results["r1"]) = 2 /\ Successful(results["r1"]) = <<>>
    /\ results["r1"][1].message = "TokenInvalid"
    /\ results["r1"][2].message = "ProviderError"
    /\ ret["r1"].detail = "TokenInvalid"

C9_NotSyncableIsInvalidState ==
    [][\A r \in Requests :
         (/\ pc[r] = "idle" /\ op'[r] = "sync"
          /\ ~(bookings[bk'[r]].status \in {ACEITO, EM_NEGOCIACAO} /\ Future(bk'[r])))
         => (/\ pc'[r] = "done"
             /\ ret'[r].success = FALSE
             /\ ret'[r].message = "InvalidState"
             /\ ret'[r].detail = bookings[bk'[r]].status
             /\ calls'[r] = <<>>
             /\ bookings' = bookings)]_vars

\* C9, amended: a reconcile of a booking whose status is not Accepted or
\* InNegotiation fails with InvalidState carrying the status, without calendar
\* call or mutation; with one of these two statuses the booking passes the
\* guard, whether or not its scheduled start is in the future.
C9_StatusAloneGuards ==
    [][\A r \in Requests :
         (pc[r] = "idle" /\ op'[r] = "sync")
         => IF bookings[bk'[r]].status \in {ACEITO, EM_NEGOCIACAO}
            THEN pc'[r] = "targets"
            ELSE /\ pc'[r] = "done"
                 /\ ret'[r].success = FALSE
                 /\ ret'[r].message = "InvalidState"
                 /\ ret'[r].detail = bookings[bk'[r]].status
                 /\ calls'[r] = <<>>
                 /\ bookings' = bookings]_vars

\* A reconcile of a pending booking ended with InvalidState.
C9_Witness ==
    /\ op["r1"] = "sync" /\ pc["r1"] = "done"
    /\ ret["r1"].message = "InvalidState"
    /\ ret["r1"].detail = PENDENTE
    /\ bookings["b1"].status = PENDENTE

\* C10 as stated: the target list of a reconcile is exactly the participants
\* whose stored credential is not expired or can be refreshed, performer
\* first; with an empty list the call fails with NoTargets without calendar
\* call or mutation.
C10_TargetsHaveUsableCredential ==
    [][\A r \in Requests :
         (op[r] = "sync" /\ pc[r] = "targets" /\ pc'[r] # "targets")
         => LET usable == SelectSeq(<<banda(bk[r]), estabelecimento(bk[r])>>,
                             LAMBDA u : u \in Users /\ cred[u] \in {"valid", "expired"})
            IN IF usable = <<>>
               THEN /\ pc'[r] = "done"
                    /\ ret'[r].success = FALSE
                    /\ ret'[r].message = "NoTargets"
                    /\ calls'[r] = <<>>
                    /\ bookings' = bookings
               ELSE /\ pc'[r] = "call"
                    /\ targets'[r] = usable]_vars

\* C10, amended: the target list of a reconcile is exactly the participants
\* with a stored access token, expired or not, refreshable or not, performer
\* first; with an empty list the call fails with NoTargets without calendar
\* call or mutation.
C10_TargetsHaveStoredToken ==
    [][\A r \in Requests :
         (op[r] = "sync" /\ pc[r] = "targets" /\ pc'[r] # "targets")
         => LET stored == SelectSeq(<<banda(bk[r]), estabelecimento(bk[r])>>,
                             LAMBDA u : u \in Users /\ cred[u] # "none")
            IN IF stored = <<>>
               THEN /\ pc'[r] = "done"
                    /\ ret'[r].success = FALSE
                    /\ ret'[r].message = "NoTargets"
                    /\ calls'[r] = <<>>
                    /\ bookings' = bookings
               ELSE /\ pc'[r] = "call"
                    /\ targets'[r] = stored]_vars

\* The only participant with a stored token has an expired token that cannot
\* be refreshed: it was the target, and the reconcile failed on its token.
C10_Witness ==
    /\ op["r1"] = "sync" /\ pc["r1"] = "done"
    /\ targets["r1"] = <<"u1">>
    /\ cred["u1"] = "unrefreshable"
    /\ ret["r1"].message = "SyncFailed"
    /\ ret["r1"].detail = "TokenInvalid"

\* C11: a remove of a booking without external event id fails with NotSynced,
\* issues no deleteEvent call and changes no booking.
C11_RemoveNotSynced ==
    /\ [][\A r \in Requests :
            (pc[r] = "idle" /\ op'[r] = "remove" /\ bookings[bk'[r]].eventId = NoEvent)
            => (/\ pc'[r] = "done"
                /\ ret'[r].success = FALSE
                /\ ret'[r].message = "NotSynced"
                /\ bookings' = bookings)]_vars
    /\ [](\A r \in Requests :
            (op[r] = "remove" /\ snap[r].eventId = NoEvent)
            => (calls[r] = <<>> /\ pc[r] = "done"))

\* A remove of a booking that was synced and removed before has ended with
\* NotSynced while the performer is connected.
C11_Witness ==
    /\ op["r1"] = "remove" /\ pc["r1"] = "done"
    /\ ret["r1"].message = "NotSynced"
    /\ bookings["b1"].lastSyncAt # NoTime
    /\ cred["u1"] = "valid"

C16_FailureDoesNotAbort ==
    /\ [][\A r \in Requests :
            /\ (bpc[r] \in {"create", "update", "delete"} /\ pc[r] = "done" /\ pc'[r] = "idle")
               => (/\ queue[r] # <<>>
                   /\ actions'[r] = Append(actions[r],
                                           [type |-> bpc[r], bookingId |-> Head(queue[r]),
                                            success |-> ret[r].success])
                   /\ queue'[r] = Tail(queue[r])
                   /\ bpc'[r] = bpc[r])
            /\ (bpc[r] \in {"create", "update", "delete"} /\ bpc'[r] # bpc[r])
               => queue[r] = <<>>]_vars
    /\ [](\A r \in Requests :
            bpc[r] = "done"
            => /\ bret[r].success = (bret[r].message = "Completed")
               /\ bret[r].message \in {"Completed", "StoreError", "NotConnected"}
               /\ bret[r].message # "Completed" => actions[r] = <<>>)

\* An intelligentSync has ended with success = true after the first call of a
\* phase failed and the second booking of the phase was processed.
C16_Witness ==
    /\ bpc["r1"] = "done" /\ bret["r1"].success
    /\ Len(actions["r1"]) >= 2
    /\ actions["r1"][1].type = "create" /\ ~actions["r1"][1].success
    /\ actions["r1"][2].type = "create"

\* The records of the report made for booking b and event e.
RecordsOf(b, e) ==
    { i \in DOMAIN cret.conflicts :
        cret.conflicts[i].bookingId = b /\ cret.conflicts[i].event = e }

Listed == { cevents[i] : i \in DOMAIN cevents }

\* C17: the overlap test on a booking and a timed event is true exactly when
\* bookingStart < eventEnd and eventStart < bookingEnd, and a finished check
\* holds no record for a booking and an event that only touch at an endpoint.
C17_OverlapIsStrict ==
    \A b \in Bookings : \A e \in calendars["u1"] :
        LET t == eventTimes[e]
        IN t # NoEventTimes =>
             /\ checkTimeOverlap(bookingStart(b), bookingEnd(b), t.start, t.end)
                  = (bookingStart(b) < t.end /\ t.start < bookingEnd(b))
             /\ (cpc = "done" /\ (bookingEnd(b) = t.start \/ t.end = bookingStart(b)))
                  => RecordsOf(b, e) = {}

\* A check that compared b1 with an event starting at b1's end and with an
\* event overlapping b1 reported the second only.
C17_Witness ==
    /\ cpc = "done" /\ cret.path = "checked"
    /\ "b1" \in getUserBookingsInPeriod(cuser, cwin.start, cwin.end)
    /\ \E e \in Listed :
          /\ eventTimes[e].start = bookingEnd("b1")
          /\ e # bookings["b1"].eventId
          /\ RecordsOf("b1", e) = {}
    /\ Len(cret.conflicts) = 1
    /\ cret.conflicts[1].bookingId = "b1"

\* C18: every record of a finished check is classified same_time exactly when
\* the booking and the event start at the same instant and end at the same
\* instant, and overlap otherwise; a booking [s, s+2) compared with another
\* event [s+1, s+3) gives exactly one record for the pair, classified overlap.
C18_Classification ==
    cpc = "done" =>
      /\ \A i \in DOMAIN cret.conflicts :
            LET rec == cret.conflicts[i]
                t == eventTimes[rec.event]
            IN rec.conflictType =
                 IF /\ bookingStart(rec.bookingId) = t.start
                    /\ bookingEnd(rec.bookingId) = t.end
                 THEN "same_time" ELSE "overlap"
      /\ cret.path = "checked" =>
            \A b \in getUserBookingsInPeriod(cuser, cwin.start, cwin.end) :
              \A e \in Listed :
                (/\ e # bookings[b].eventId
                 /\ eventTimes[e] = [start |-> bookingStart(b) + 1,
                                     end |-> bookingEnd(b) + 1])
                => /\ Cardinality(RecordsOf(b, e)) = 1
                   /\ \A i \in RecordsOf(b, e) :
                         cret.conflicts[i].conflictType = "overlap"

\* b1 [0,2) was compared with an event [1,3) and an event [0,2): one record
\* for the first, classified overlap, and a same_time record for the second.
C18_Witness ==
    /\ cpc = "done" /\ cret.path = "checked"
    /\ "b1" \in getUserBookingsInPeriod(cuser, cwin.start, cwin.end)
    /\ \E e1, e2 \in Listed :
          /\ eventTimes[e1] = [start |-> 1, end |-> 3]
          /\ eventTimes[e2] = [start |-> 0, end |-> 2]
          /\ Cardinality(RecordsOf("b1", e1)) = 1
          /\ \A i \in RecordsOf("b1", e1) : cret.conflicts[i].conflictType = "overlap"
          /\ \E i \in RecordsOf("b1", e2) : cret.conflicts[i].conflictType = "same_time"

\* The booking and the event, a timed one, overlap.
PairOverlaps(b, e) ==
    /\ eventTimes[e] # NoEventTimes
    /\ bookingStart(b) < eventTimes[e].end
    /\ eventTimes[e].start < bookingEnd(b)

\* C19: a check that compared the user's bookings of the window with the
\* listed events holds exactly one record for each booking and event that
\* overlap and whose event id is not the booking's own event id, and no
\* record for any other pair; hasConflicts is true exactly when the list of
\* records is not empty.
C19_OneRecordPerPair ==
    cpc = "done" =>
      /\ cret.hasConflicts = (cret.conflicts # <<>>)
      /\ cret.path = "checked" =>
            \A b \in Bookings : \A e \in 1..MaxEvents :
              Cardinality(RecordsOf(b, e)) =
                IF /\ b \in getUserBookingsInPeriod(cuser, cwin.start, cwin.end)
                   /\ e \in Listed
                   /\ e # bookings[b].eventId
                   /\ PairOverlaps(b, e)
                THEN 1 ELSE 0

\* b1's own event and another event were listed, both overlap b1: the report
\* holds the record of the other event only.
C19_Witness ==
    /\ cpc = "done" /\ cret.path = "checked"
    /\ "b1" \in getUserBookingsInPeriod(cuser, cwin.start, cwin.end)
    /\ \E e1, e2 \in Listed :
          /\ e1 = bookings["b1"].eventId /\ PairOverlaps("b1", e1)
          /\ e2 # e1 /\ PairOverlaps("b1", e2)
          /\ RecordsOf("b1", e1) = {}
          /\ Cardinality(RecordsOf("b1", e2)) = 1
    /\ cret.hasConflicts

\* C20: a check of a user without a usable calendar connection ends at the
\* listing; a check that ended at the listing, or whose booking query threw,
\* returns { hasConflicts: false, conflicts: [] }; and no check ends in an
\* error raised to its caller.
C20_DegradesSilently ==
    /\ [](cpc = "done" =>
            /\ ~cret.raised
            /\ cret.path \in {"notListed", "caught", "checked"}
            /\ cret.path \in {"notListed", "caught"} =>
                  ~cret.hasConflicts /\ cret.conflicts = <<>>)
    /\ [][(cpc = "list" /\ cpc' # "list"
            /\ \A a \in getValidGoogleTokens(cuser) : ~a.ok)
           => (cpc' = "done" /\ cret'.path = "notListed")]_vars

\* The booking query threw after a listing that held an event overlapping b1:
\* the report is empty.
C20_Witness ==
    /\ cpc = "done" /\ cret.path = "caught"
    /\ bookings["b1"].status = ACEITO
    /\ \E e \in Listed : e # bookings["b1"].eventId /\ PairOverlaps("b1", e)
    /\ ~cret.raised /\ ~cret.hasConflicts /\ cret.conflicts = <<>>

\* C21: every result of getSyncStatistics has syncedBookings +
\* unsyncedBookings = totalBookings, and syncPercentage = 0 when
\* totalBookings = 0.
C21_StatsAddUp ==
    spc = "done" =>
      /\ sret.syncedBookings + sret.unsyncedBookings = sret.totalBookings
      /\ sret.totalBookings = 0 => sret.syncPercentage = 0

\* The three counts were taken, the user has no active future booking: the
\* result has total 0 and percentage 0, although synced bookings were counted
\* after the owner re-opened one.
C21_Witness ==
    /\ spc = "done" /\ sret.path = "counted"
    /\ sret.totalBookings = 0
    /\ sret.syncedBookings = 1
    /\ sret.unsyncedBookings = -1
    /\ sret.syncPercentage = 0

\* C22: the result of getSyncStatistics over a store that did not change during
\* the call has totalBookings = the number of the user's future bookings of
\* status ACEITO or EM_NEGOCIACAO, syncedBookings = those of them with synced
\* true, syncErrors = those of them with an event id and synced false, and,
\* when totalBookings > 0, syncPercentage = 100 * synced / total rounded to the
\* nearest integer.
C22_StatsValues ==
    (spc = "done" /\ sret.path = "counted" /\ bookings = sacc.store) =>
      /\ sret.totalBookings = Cardinality(ActiveFuture(suser)) + RestOf(suser).all
      /\ sret.syncedBookings =
            Cardinality({b \in ActiveFuture(suser) : bookings[b].synced})
            + RestOf(suser).synced
      /\ sret.syncErrors =
            Cardinality({b \in ActiveFuture(suser) :
                           bookings[b].eventId # NoEvent /\ ~bookings[b].synced})
            + RestOf(suser).errors
      /\ sret.totalBookings > 0 =>
            sret.syncPercentage =
              (200 * sret.syncedBookings + sret.totalBookings)
                \div (2 * sret.totalBookings)

\* C23: a finished checkIntegrationHealth reports the coverage issue exactly
\* when the statistics it obtained have syncPercentage < 80 and
\* totalBookings > 0; with 4 of 5 bookings synced the percentage is 80 and
\* coverage is not reported, and with no booking it is not reported.
C23_CoverageThreshold ==
    hpc = "done" =>
      /\ (\E i \in DOMAIN hret.issues : hret.issues[i] = "coverage")
            <=> (hret.stats.syncPercentage < 80 /\ hret.stats.totalBookings > 0)
      /\ (hret.stats.totalBookings = 5 /\ hret.stats.syncedBookings = 4)
            => /\ hret.stats.syncPercentage = 80
               /\ \A i \in DOMAIN hret.issues : hret.issues[i] # "coverage"
      /\ hret.stats.totalBookings = 0
            => \A i \in DOMAIN hret.issues : hret.issues[i] # "coverage"

\* The statistics were counted: 5 bookings, 4 synced, 80 per cent, and the
\* finished check is healthy.
C23_Witness ==
    /\ hpc = "done"
    /\ hret.stats.path = "counted"
    /\ hret.stats.totalBookings = 5 /\ hret.stats.syncedBookings = 4
    /\ hret.stats.syncPercentage = 80
    /\ hret.healthy

\* C24: a finished checkIntegrationHealth has evaluated the five checks, its
\* issue list holds, in the order of the checks, one issue for each check that
\* failed and none for a check that passed, and healthy is true exactly when
\* the list is empty.
C24_AllChecksReported ==
    hpc = "done" =>
      /\ hret.evaluated = {"token", "access", "recency", "conflicts", "coverage"}
      /\ hret.issues =
            SelectSeq(<<"token", "access", "recency", "conflicts", "coverage">>,
                      LAMBDA c :
                        \/ c = "token" /\ ~hret.tokenValid
                        \/ c = "access" /\ ~hret.calendarAccess
                        \/ c = "recency"
                             /\ ~(/\ hret.stats.lastSyncAt # NoTime
                                  /\ now - hret.stats.lastSyncAt < SevenDays)
                        \/ c = "conflicts" /\ hret.conflictsCount > 0
                        \/ c = "coverage"
                             /\ hret.stats.syncPercentage < 80
                             /\ hret.stats.totalBookings > 0)
      /\ hret.recentSyncActivity = (\A i \in DOMAIN hret.issues : hret.issues[i] # "recency")
      /\ hret.healthy = (hret.issues = <<>>)

\* A check in which the five checks all failed: five issues.
C24_Witness ==
    /\ hpc = "done"
    /\ hret.issues = <<"token", "access", "recency", "conflicts", "coverage">>
    /\ ~hret.healthy

\* C25: in a finished checkIntegrationHealth the five checks are evaluated
\* whatever failed, and a check whose data could not be gathered is reported
\* as an issue: the conflict check when checkScheduleConflicts could not list
\* the events or query the bookings, the recency check when getSyncStatistics
\* could not query the store.
C25_GatherFailureIsUnhealthy ==
    hpc = "done" =>
      /\ hret.evaluated = {"token", "access", "recency", "conflicts", "coverage"}
      /\ hret.stats.path = "caught"
            => \E i \in DOMAIN hret.issues : hret.issues[i] = "recency"
      /\ hret.conflictsPath \in {"notListed", "caught"}
            => \E i \in DOMAIN hret.issues : hret.issues[i] = "conflicts"

\* C26: the event made from a booking starts at the booking's start instant
\* and ends exactly duracao_estimada minutes later, to the millisecond.
C26_EndIsStartPlusDuration ==
    tevent.status = "confirmed" =>
        /\ ParseISO(tevent.start) = tbooking.data_show
        /\ ParseISO(tevent.end)
             = tbooking.data_show + tbooking.duracao_estimada * 60000

C26_Witness ==
    /\ tevent.status = "confirmed"
    /\ tbooking.data_show % 1000 = 999
    /\ tbooking.duracao_estimada = 1441
    /\ tevent.end.day = tevent.start.day + 2
    /\ tevent.end.ms = 999

\* C27: syncBookingToCalendar and removeBookingFromCalendar end every call
\* with a response holding a success flag and a message, whatever happened:
\* booking not found, status not syncable, booking not synced, no user to
\* sync with, provider failure, store error; no error reaches the caller.
C27_AlwaysStructured ==
    \A r \in Requests :
        /\ pc[r] # "thrown"
        /\ pc[r] = "done" =>
              /\ ret[r].message \in {"Synced", "Removed", "NotFound", "InvalidState",
                                     "NotSynced", "NoTargets", "SyncFailed",
                                     "RemoveFailed", "Error"}
              /\ ret[r].success <=> ret[r].message \in {"Synced", "Removed"}

\* The store failed after the provider had created the event.
C27_Witness ==
    /\ pc["r1"] = "done" /\ op["r1"] = "sync"
    /\ ret["r1"].message = "Error" /\ ~ret["r1"].success
    /\ Len(Successful(results["r1"])) > 0
    /\ bookings["b1"].eventId = NoEvent

\* C28: no step makes a booking's lastSyncAt smaller, and none takes a
\* lastSyncAt that is set back to unset, however the sync and remove calls
\* of two requests interleave.
C28_LastSyncAtMonotone ==
    [][\A b \in Bookings : bookings'[b].lastSyncAt >= bookings[b].lastSyncAt]_vars

C30_OwnCredentials ==
    \A r \in Requests :
        (gpc[r] = "done" /\ gused[r] # NoUser) => gused[r] = guser[r]

\* C31: the sync fields are written without looking at what the booking
\* holds: each write of a reconcile stores the id this call computed.  With
\* two concurrent reconciles of a booking without event id, an id returned by
\* a successful create can therefore end up stored on no booking.
C31_UnconditionalWrite ==
    [][\A r \in Requests :
         /\ (op[r] = "sync" /\ pc[r] = "save" /\ pc'[r] # "save")
              => bookings'[bk[r]].eventId = results[r][Len(results[r])].eventId
         /\ (op[r] = "sync" /\ pc[r] = "finish" /\ pc'[r] = "done"
             /\ Successful(results[r]) # <<>>)
              => bookings'[bk[r]].eventId = FinalEventId(r)]_vars

\* Both requests created an event for b1 and have finished; the id that r2's
\* create returned is in a calendar and on no booking.
C31_Witness ==
    /\ pc["r1"] = "done" /\ op["r1"] = "sync" /\ ret["r1"].success
    /\ pc["r2"] = "done" /\ op["r2"] = "sync" /\ ret["r2"].success
    /\ snap["r1"].eventId = NoEvent /\ snap["r2"].eventId = NoEvent
    /\ \E i \in 1..Len(results["r2"]) :
         LET e == results["r2"][i].eventId IN
           /\ results["r2"][i].success /\ e # NoEvent
           /\ calls["r2"][i].kind = "create"
           /\ e \in calendars[calls["r2"][i].user]
           /\ \A b \in Bookings : bookings[b].eventId # e

\* C32: after a successful updateEvent every field of the event in the
\* calendar is the one given in the partial event when it was given, and
\* otherwise the one the event had when it was read.
C32_UpdateMerges ==
    upd.pc = "done" =>
        \A f \in Fields :
            upd.remote[f] = IF upd.eventData[f] # "absent"
                            THEN upd.eventData[f] ELSE upd.existing[f]

\* C33: the sync fields of a booking change only in a step of
\* syncBookingToCalendar or removeBookingFromCalendar on that booking, called
\* directly or by a batch call; no step of getSyncStatistics,
\* checkScheduleConflicts or checkIntegrationHealth changes them.
C33_OnlySyncAndRemoveWrite ==
    [][\A b \in Bookings :
         SyncFields(b)' # SyncFields(b) =>
            /\ \E r \in Requests :
                 /\ bk[r] = b /\ op[r] \in {"sync", "remove"}
                 /\ pc[r] \in {"save", "finish"} /\ pc'[r] # pc[r]
            /\ spc' = spc /\ cpc' = cpc /\ hpc' = hpc]_vars

\* A health check has run to its end on a store in which intelligentSync had
\* synced b1: the sync fields are those the sync wrote.
C33_Witness ==
    /\ hpc = "done" /\ hret.evaluated # {}
    /\ bookings["b1"].synced /\ bookings["b1"].eventId # NoEvent
    /\ bookings["b1"].lastSyncAt < now

C35_IdNeverReplaced ==
    [][\A b \in Bookings :
         bookings[b].eventId # NoEvent =>
            bookings'[b].eventId \in {bookings[b].eventId, NoEvent}]_vars

\* C36: checkScheduleConflicts reports no conflict of a booking with an
\* event that syncBookingToCalendar created for that booking, in the calendar
\* of either participant.  Here every event of a calendar was created for b1.
C36_NoConflictWithOwnEvent ==
    cpc = "done" =>
        \A i \in 1..Len(cret.conflicts) :
            cret.conflicts[i].bookingId = "b1" =>
                cret.conflicts[i].event \notin UNION {calendars[u] : u \in Users}

\* C37: when removeBookingFromCalendar has returned success = true, the
\* calendar of no target holds an event that a sync created for the booking.
\* The calendars start empty and b1 is the only booking synced, so every
\* event in a calendar was created for b1.
C37_RemoveDeletesEveryEvent ==
    \A r \in Requests :
        (op[r] = "remove" /\ pc[r] = "done" /\ ret[r].success) =>
            \A i \in 1..Len(targets[r]) : calendars[targets[r][i]] = {}

C39_OneCreatePerTarget ==
    [][\A r, q \in Requests :
         (/\ r # q /\ op[r] = "sync" /\ op[q] = "sync" /\ bk[r] = bk[q]
          /\ pc[q] \notin {"idle", "done"}
          /\ Len(calls'[r]) = Len(calls[r]) + 1
          /\ calls'[r][Len(calls'[r])].kind = "create")
         => ~\E i \in 1..Len(calls[q]) :
               /\ calls[q][i].kind = "create" /\ results[q][i].success
               /\ calls[q][i].user = calls'[r][Len(calls'[r])].user]_vars

\* C40: every result of getSyncStatistics has 0 <= syncedBookings <=
\* totalBookings, unsyncedBookings >= 0 and 0 <= syncPercentage <= 100, also
\* when the store changes between the count queries.
C40_StatsInRange ==
    spc = "done" =>
      /\ 0 <= sret.syncedBookings /\ sret.syncedBookings <= sret.totalBookings
      /\ sret.unsyncedBookings >= 0
      /\ 0 <= sret.syncPercentage /\ sret.syncPercentage <= 100

====
